---- MODULE Spec2Model ----
(***************************************************************************)
(* Verification model of nuernberg-kino-bot: the subscription stores       *)
(* (file-backed src/src/subscribers.py, MongoDB-backed api/webhook.py),    *)
(* the snapshot store and the diff engine (src/src/storage.py,             *)
(* src/src/models.py), the notifier (src/src/notifier.py) and the          *)
(* monitoring script (src/src/main.py).                                    *)
(***************************************************************************)
EXTENDS Integers, Sequences, FiniteSets, TLC

VARIABLES
    backend,      \* which subscription store this deployment runs: "file" | "mongo"
    subscribers,  \* SubscriberManager._subscribers of the file-backed store
    subFile,      \* content of state/subscribers.json
    coll,         \* the MongoDB collection db['subscribers'], keyed by chat_id
    sess,         \* per webhook invocation: position inside a store call and its locals
    ev,           \* the step taken last and what it returned
    previous,     \* compare_snapshots: old_snapshot
    current,      \* compare_snapshots: new_films
    diff,         \* compare_snapshots: the returned triple, None before the call
    fs,           \* the snapshot files on disk: path -> content
    sev,          \* the snapshot-store call made last, with what it returned
    run,          \* one invocation of main(): position, inputs and what it did
    managers,     \* per process of the file-backed deployment: its SubscriberManager
    notif,        \* the call of send_update_notification made last and its result
    languages,    \* the MongoDB collection db['languages'], keyed by chat_id
    bcast         \* ADMIN_CHAT_IDS and the /broadcast update processed last

subVars   == <<backend, subscribers, subFile, coll, sess, ev>>
diffVars  == <<previous, current, diff>>
storeVars == <<fs, sev>>
mainVars  == <<run>>
procVars  == <<managers>>
notifyVars == <<notif>>
langVars  == <<languages>>
bcastVars == <<bcast>>
vars      == <<backend, subscribers, subFile, coll, sess, ev,
               previous, current, diff, fs, sev, run, managers, notif,
               languages, bcast>>

(***************************************************************************)
(* Bounds of the model.                                                    *)
(***************************************************************************)
NumChats     == 2
MaxFilms     == 2
MaxShowtimes == 2

Chats    == 1..NumChats
Sessions == {"w1", "w2"}
Sources  == {"meisengeige", "kinderkino"}

(***************************************************************************)
(* Python values.                                                          *)
(***************************************************************************)
None    == <<>>
Some(x) == <<x>>

Range(seq) == {seq[i] : i \in DOMAIN seq}

\* list.remove(x): drops the first occurrence of x
ListRemove(seq, x) ==
    LET i == CHOOSE k \in DOMAIN seq :
                 seq[k] = x /\ \A j \in 1..(k - 1) : seq[j] # x
    IN  SubSeq(seq, 1, i - 1) \o SubSeq(seq, i + 1, Len(seq))

\* del d[k]
DictDel(d, k) == [x \in DOMAIN d \ {k} |-> d[x]]

\* d[k] = v
DictSet(d, k, v) == [x \in DOMAIN d \cup {k} |-> IF x = k THEN v ELSE d[x]]

EmptyDict == [x \in {} |-> None]

\* str(chat_id) as json.dump writes a dict key, and int(k) as the load reads it
IntToStr(n) == ToString(n)
StrToInt(k) == CHOOSE n \in Chats : IntToStr(n) = k

RECURSIVE SortedSeq(_)
SortedSeq(S) ==
    IF S = {} THEN <<>>
    ELSE LET m == CHOOSE x \in S : \A y \in S : x <= y
         IN  <<m>> \o SortedSeq(S \ {m})

(***************************************************************************)
(* src/src/subscribers.py: the file-backed SubscriberManager.              *)
(***************************************************************************)
DefaultSource   == "meisengeige"
DefaultLanguage == "en"

FileAbsent  == [kind |-> "absent"]
FileCorrupt == [kind |-> "corrupt"]
JsonList(items)   == [kind |-> "json", type |-> "list", items |-> items, entries |-> EmptyDict]
JsonDict(entries) == [kind |-> "json", type |-> "dict", items |-> <<>>, entries |-> entries]

_migrate_old_format_drops_first_id(data) ==
    IF data.type = "list"
    THEN [c \in Range(SubSeq(data.items, 2, Len(data.items))) |->
              [sources |-> <<DefaultSource>>, language |-> DefaultLanguage]]
    ELSE [c \in {StrToInt(k) : k \in DOMAIN data.entries} |->
              data.entries[IntToStr(c)]]

_migrate_old_format(data) ==
    IF data.type = "list"
    THEN [c \in Range(data.items) |->
              [sources |-> <<DefaultSource>>, language |-> DefaultLanguage]]
    ELSE [c \in {StrToInt(k) : k \in DOMAIN data.entries} |->
              data.entries[IntToStr(c)]]

_load_subscribers(file) ==
    IF file.kind = "absent" THEN EmptyDict
    ELSE IF file.kind = "corrupt" THEN EmptyDict
    ELSE _migrate_old_format(file)

\* json.dump({'subscribers': self._subscribers}): integer keys are written as strings
DumpSubscribers(subs) ==
    JsonDict([k \in {IntToStr(c) : c \in DOMAIN subs} |-> subs[StrToInt(k)]])

\* open(..., 'w') truncates before anything is written; OSError is swallowed
SaveOutcomes == {"ok", "open_error", "write_error"}

_save_subscribers(subs, file, io) ==
    CASE io = "ok"          -> DumpSubscribers(subs)
      [] io = "open_error"  -> file
      [] io = "write_error" -> FileCorrupt

add_subscription_no_membership_test(subs, chat_id, source_id) ==
    LET subs1 == IF chat_id \in DOMAIN subs THEN subs
                 ELSE DictSet(subs, chat_id,
                              [sources |-> <<>>, language |-> DefaultLanguage])
    IN  [subscribers |->
             [subs1 EXCEPT ![chat_id].sources = Append(@, source_id)],
         save |-> TRUE, ret |-> TRUE]

add_subscription(subs, chat_id, source_id) ==
    LET subs1 == IF chat_id \in DOMAIN subs THEN subs
                 ELSE DictSet(subs, chat_id,
                              [sources |-> <<>>, language |-> DefaultLanguage])
    IN  IF source_id \in Range(subs1[chat_id].sources)
        THEN [subscribers |-> subs1, save |-> FALSE, ret |-> FALSE]
        ELSE [subscribers |->
                  [subs1 EXCEPT ![chat_id].sources = Append(@, source_id)],
              save |-> TRUE, ret |-> TRUE]

remove_subscription_keeps_record(subs, chat_id, source_id) ==
    IF chat_id \notin DOMAIN subs
    THEN [subscribers |-> subs, save |-> FALSE, ret |-> FALSE]
    ELSE IF source_id \notin Range(subs[chat_id].sources)
    THEN [subscribers |-> subs, save |-> FALSE, ret |-> FALSE]
    ELSE [subscribers |->
              [subs EXCEPT ![chat_id].sources = ListRemove(@, source_id)],
          save |-> TRUE, ret |-> TRUE]

remove_subscription_drops_record(subs, chat_id, source_id) ==
    IF chat_id \notin DOMAIN subs
    THEN [subscribers |-> subs, save |-> FALSE, ret |-> FALSE]
    ELSE IF source_id \notin Range(subs[chat_id].sources)
    THEN [subscribers |-> subs, save |-> FALSE, ret |-> FALSE]
    ELSE [subscribers |-> DictDel(subs, chat_id), save |-> TRUE, ret |-> TRUE]

remove_subscription(subs, chat_id, source_id) ==
    IF chat_id \notin DOMAIN subs
    THEN [subscribers |-> subs, save |-> FALSE, ret |-> FALSE]
    ELSE IF source_id \notin Range(subs[chat_id].sources)
    THEN [subscribers |-> subs, save |-> FALSE, ret |-> FALSE]
    ELSE LET left == ListRemove(subs[chat_id].sources, source_id)
         IN  [subscribers |->
                  IF left = <<>> THEN DictDel(subs, chat_id)
                  ELSE [subs EXCEPT ![chat_id].sources = left],
              save |-> TRUE, ret |-> TRUE]

add_subscriber(subs, chat_id) == add_subscription(subs, chat_id, DefaultSource)

remove_subscriber_drops_default_source(subs, chat_id) ==
    remove_subscription(subs, chat_id, DefaultSource)

remove_subscriber(subs, chat_id) ==
    IF chat_id \notin DOMAIN subs
    THEN [subscribers |-> subs, save |-> FALSE, ret |-> FALSE]
    ELSE [subscribers |-> DictDel(subs, chat_id), save |-> TRUE, ret |-> TRUE]

get_user_sources(subs, chat_id) ==
    IF chat_id \notin DOMAIN subs THEN <<>> ELSE subs[chat_id].sources

is_subscribed_without_source_test(subs, chat_id, source_id) ==
    IF chat_id \notin DOMAIN subs THEN FALSE
    ELSE Len(subs[chat_id].sources) > 0

\* source_id is None or Some(s)
is_subscribed(subs, chat_id, source_id) ==
    IF chat_id \notin DOMAIN subs THEN FALSE
    ELSE IF source_id = None THEN Len(subs[chat_id].sources) > 0
    ELSE source_id[1] \in Range(subs[chat_id].sources)

get_all_subscribers(subs) == DOMAIN subs

get_subscribers_for_source(subs, source_id) ==
    {chat_id \in DOMAIN subs : source_id \in Range(subs[chat_id].sources)}

\* source_id is None or Some(s); len() of the dict or of the set
get_subscriber_count(subs, source_id) ==
    IF source_id = None THEN Cardinality(DOMAIN subs)
    ELSE Cardinality(get_subscribers_for_source(subs, source_id[1]))

(***************************************************************************)
(* api/webhook.py: the MongoDB-backed SubscriberManager.  Every call to    *)
(* the collection is one atomic step of the server; a handler that reads   *)
(* and then writes is two steps, and other invocations run in between.     *)
(***************************************************************************)
find_one(c, chat_id) == IF chat_id \in DOMAIN c THEN Some(c[chat_id]) ELSE None

\* update_one({'chat_id': chat_id}, {'$set': {'sources': sources}}): no upsert
update_one(c, chat_id, sources) ==
    IF chat_id \in DOMAIN c THEN [c EXCEPT ![chat_id].sources = sources] ELSE c

delete_one(c, chat_id) == DictDel(c, chat_id)

\* insert_one under the unique index on chat_id
insert_one(c, chat_id, sources) ==
    IF chat_id \in DOMAIN c
    THEN [coll |-> c, ret |-> "DuplicateKeyError"]
    ELSE [coll |-> DictSet(c, chat_id,
                           [chat_id |-> chat_id, sources |-> sources,
                            language |-> DefaultLanguage]),
          ret |-> "True"]

\* add_subscription up to its write: what it returns or which write it goes on to
Mongo_add_subscription(doc, source_id) ==
    IF doc # None
    THEN IF source_id \in Range(doc[1].sources)
         THEN [pc |-> "idle", ret |-> "False", sources |-> <<>>]
         ELSE [pc |-> "add_update", ret |-> "pending",
               sources |-> Append(doc[1].sources, source_id)]
    ELSE [pc |-> "add_insert", ret |-> "pending", sources |-> <<source_id>>]

\* remove_subscription up to its write
Mongo_remove_subscription(doc, source_id) ==
    IF doc = None
    THEN [pc |-> "idle", ret |-> "False", sources |-> <<>>]
    ELSE IF source_id \notin Range(doc[1].sources)
    THEN [pc |-> "idle", ret |-> "False", sources |-> <<>>]
    ELSE LET left == ListRemove(doc[1].sources, source_id)
         IN  IF left = <<>>
             THEN [pc |-> "remove_delete", ret |-> "pending", sources |-> left]
             ELSE [pc |-> "remove_update", ret |-> "pending", sources |-> left]

Mongo_get_user_sources(c, chat_id) ==
    LET doc == find_one(c, chat_id)
    IN  IF doc # None THEN doc[1].sources ELSE <<>>

Mongo_is_subscribed(c, chat_id, source_id) ==
    LET doc == find_one(c, chat_id)
    IN  IF doc = None THEN FALSE
        ELSE IF source_id = None THEN Len(doc[1].sources) > 0
        ELSE source_id[1] \in Range(doc[1].sources)

Mongo_get_all_subscribers(c) == {c[k].chat_id : k \in DOMAIN c}

\* {doc['chat_id'] for doc in find({'sources': source_id})}
Mongo_get_subscribers_for_source(c, source_id) ==
    {c[k].chat_id : k \in {d \in DOMAIN c : source_id \in Range(c[d].sources)}}

\* count_documents({}) or count_documents({'sources': source_id})
Mongo_get_subscriber_count(c, source_id) ==
    IF source_id = None THEN Cardinality(DOMAIN c)
    ELSE Cardinality({d \in DOMAIN c : source_id[1] \in Range(c[d].sources)})

(***************************************************************************)
(* The subscription stores as a state machine.                             *)
(***************************************************************************)
Idle == [pc |-> "idle", chat |-> 0, source |-> "", sources |-> <<>>, doc |-> None]

Event(op, step, chat, source, ret, clean, io) ==
    [op |-> op, step |-> step, chat |-> chat, source |-> source, ret |-> ret,
     clean |-> clean, io |-> io]

BoolStr(b) == IF b THEN "True" ELSE "False"

\* a migrated installation starts from the flat list an older version wrote
InitialSubFiles == {FileAbsent} \cup {JsonList(SortedSeq(S)) : S \in SUBSET Chats}

NoDiffState  == previous = None /\ current = <<>> /\ diff = None
\* ret: how a save ended, or the exception that left a load ("none" when it
\* returned); snapshot: what a load returned
StoreEvent(op, source, films, ret, snapshot) ==
    [op |-> op, source |-> source, films |-> films, ret |-> ret,
     snapshot |-> snapshot]

NoStoreState == /\ fs = EmptyDict
                /\ sev = StoreEvent("init", "", <<>>, "none", None)

\* main.py:40-42, 50: list_sources() yields the sources in registration order
RegisteredSources == <<"meisengeige", "kinderkino">>

\* what scraper.scrape() does for a source: returns films or raises
Scraped(films)       == [raises |-> "none", films |-> films]
ScrapeRaises(exc)    == [raises |-> exc, films |-> <<>>]

\* main() before it is called
NotStarted ==
    [pc        |-> "idle",
     notify    |-> FALSE,
     token     |-> FALSE,
     notifier  |-> FALSE,
     site      |-> [s \in Sources |-> ScrapeRaises("not_called")],
     i         |-> 0,
     status    |-> [s \in Sources |-> "pending"],
     stage     |-> [s \in Sources |-> "none"],
     raised    |-> [s \in Sources |-> "none"],
     send_raised |-> [s \in Sources |-> "none"],
     attempted |-> <<>>,
     sent      |-> {},
     exit_code |-> -1]

NoMainState == run = NotStarted

\* the processes that share state/subscribers.json: the polling bot
\* (bot_commands.py:27) and the monitoring script (notifier.py:29)
Processes == {"bot", "monitor"}

\* a process that has not constructed its SubscriberManager; calls counts the
\* mutating calls made, unsaved tells that the last save of the process failed
NoManager == [up |-> FALSE, subscribers |-> EmptyDict, calls |-> 0, unsaved |-> FALSE]

NoProcState == managers = [p \in Processes |-> NoManager]

\* what the Bot API does with the calls made for one chat during one
\* notification: call number at raises exc (at = 0: no call fails), and with
\* again the call after it raises too
TelegramBehaviour(at, again, exc) == [at |-> at, again |-> again, exc |-> exc]

NetOk == TelegramBehaviour(0, FALSE, "TelegramError")

\* a notification call that sent nothing and returned: notifier.py:66-75
NoSend ==
    [raises |-> "none", delivered |-> {}, log |-> [c \in Chats |-> <<>>],
     attempted |-> <<>>, success_count |-> 0, error_count |-> 0]

\* send_update_notification before it is called
NotCalled ==
    [called |-> FALSE, source_id |-> "", new_films |-> <<>>,
     removed_films |-> <<>>, updated_films |-> <<>>, net |-> [c \in Chats |-> NetOk],
     result |-> NoSend]

NoNotifyState == notif = NotCalled

NoLangState == languages = EmptyDict

\* the reply of a /broadcast update that sent nothing: webhook.py:1177-1195
Replied(ret) ==
    [raises |-> "none", ret |-> ret, sent |-> {}, success_count |-> 0,
     total |-> 0]

\* no /broadcast update processed yet, ADMIN_CHAT_IDS unset
NoBroadcast ==
    [env |-> <<>>, called |-> FALSE, chat_id |-> 0, words |-> <<>>,
     result |-> Replied("None"), replied |-> FALSE]

NoBroadcastState == bcast = NoBroadcast

Init ==
    /\ backend \in {"file", "mongo"}
    /\ subFile \in (IF backend = "file" THEN InitialSubFiles ELSE {FileAbsent})
    /\ subscribers = _load_subscribers(subFile)
    /\ coll = EmptyDict
    /\ sess = [p \in Sessions |-> Idle]
    /\ ev = Event("init", "call", 0, "", "None", TRUE, "none")
    /\ NoDiffState
    /\ NoStoreState
    /\ NoMainState
    /\ NoProcState
    /\ NoNotifyState
    /\ NoLangState
    /\ NoBroadcastState

\* one call on the file-backed store: the in-memory change and, when the call
\* saves, the write of the whole record set to the file
FileCall(op, chat, source, r) ==
    /\ backend = "file"
    /\ subscribers' = r.subscribers
    /\ \E io \in (IF r.save THEN SaveOutcomes ELSE {"none"}) :
          /\ subFile' = IF r.save
                        THEN _save_subscribers(r.subscribers, subFile, io)
                        ELSE subFile
          /\ ev' = Event(op, "call", chat, source, BoolStr(r.ret), TRUE, io)
    /\ UNCHANGED <<backend, coll, sess, diffVars, storeVars, mainVars, procVars, notifyVars, langVars, bcastVars>>

FileAddSubscription(c, s) ==
    FileCall("add_subscription", c, s, add_subscription(subscribers, c, s))

FileRemoveSubscription(c, s) ==
    FileCall("remove_subscription", c, s, remove_subscription(subscribers, c, s))

FileAddSubscriber(c) ==
    FileCall("add_subscriber", c, DefaultSource, add_subscriber(subscribers, c))

FileRemoveSubscriber(c) ==
    FileCall("remove_subscriber", c, "", remove_subscriber(subscribers, c))

\* the process ends and a new SubscriberManager is constructed from the file
FileRestart ==
    /\ backend = "file"
    /\ subscribers' = _load_subscribers(subFile)
    /\ ev' = Event("restart", "call", 0, "", "None", TRUE, "none")
    /\ UNCHANGED <<backend, subFile, coll, sess, diffVars, storeVars, mainVars, procVars, notifyVars, langVars, bcastVars>>

\* find_one of add_subscription / remove_subscription and the branch taken on it
MongoRead(p, op, c, s, r) ==
    /\ backend = "mongo"
    /\ sess[p].pc = "idle"
    /\ sess' = [sess EXCEPT ![p] =
                   IF r.pc = "idle" THEN Idle
                   ELSE [pc |-> r.pc, chat |-> c, source |-> s,
                         sources |-> r.sources, doc |-> find_one(coll, c)]]
    /\ ev' = Event(op, "call", c, s, r.ret, TRUE, "none")
    /\ UNCHANGED <<backend, subscribers, subFile, coll, diffVars, storeVars, mainVars, procVars, notifyVars, langVars, bcastVars>>

MongoAddSubscription(p, c, s) ==
    MongoRead(p, "add_subscription", c, s,
              Mongo_add_subscription(find_one(coll, c), s))

MongoRemoveSubscription(p, c, s) ==
    MongoRead(p, "remove_subscription", c, s,
              Mongo_remove_subscription(find_one(coll, c), s))

\* the write a pending call goes on to; clean records that the document the
\* call read is still the stored one, io the collection method called
MongoWrite(p, op, newColl, ret, call) ==
    /\ coll' = newColl
    /\ sess' = [sess EXCEPT ![p] = Idle]
    /\ ev' = Event(op, "write", sess[p].chat, sess[p].source, ret,
                   find_one(coll, sess[p].chat) = sess[p].doc, call)
    /\ UNCHANGED <<backend, subscribers, subFile, diffVars, storeVars, mainVars, procVars, notifyVars, langVars, bcastVars>>

MongoAddUpdate(p) ==
    /\ backend = "mongo"
    /\ sess[p].pc = "add_update"
    /\ MongoWrite(p, "add_subscription",
                  update_one(coll, sess[p].chat, sess[p].sources), "True",
                  "update_one")

MongoAddInsert(p) ==
    /\ backend = "mongo"
    /\ sess[p].pc = "add_insert"
    /\ LET r == insert_one(coll, sess[p].chat, sess[p].sources)
       IN  MongoWrite(p, "add_subscription", r.coll, r.ret, "insert_one")

MongoRemoveDelete(p) ==
    /\ backend = "mongo"
    /\ sess[p].pc = "remove_delete"
    /\ MongoWrite(p, "remove_subscription", delete_one(coll, sess[p].chat), "True",
                  "delete_one")

MongoRemoveUpdate(p) ==
    /\ backend = "mongo"
    /\ sess[p].pc = "remove_update"
    /\ MongoWrite(p, "remove_subscription",
                  update_one(coll, sess[p].chat, sess[p].sources), "True",
                  "update_one")

\* remove_subscriber: a single delete_one, result.deleted_count > 0
MongoRemoveSubscriber(p, c) ==
    /\ backend = "mongo"
    /\ sess[p].pc = "idle"
    /\ coll' = delete_one(coll, c)
    /\ ev' = Event("remove_subscriber", "call", c, "", BoolStr(c \in DOMAIN coll),
                   TRUE, "none")
    /\ UNCHANGED <<backend, subscribers, subFile, sess, diffVars, storeVars, mainVars, procVars, notifyVars, langVars, bcastVars>>

Next ==
    \/ \E c \in Chats, s \in Sources : FileAddSubscription(c, s)
    \/ \E c \in Chats, s \in Sources : FileRemoveSubscription(c, s)
    \/ \E c \in Chats : FileAddSubscriber(c)
    \/ \E c \in Chats : FileRemoveSubscriber(c)
    \/ FileRestart
    \/ \E p \in Sessions, c \in Chats, s \in Sources : MongoAddSubscription(p, c, s)
    \/ \E p \in Sessions, c \in Chats, s \in Sources : MongoRemoveSubscription(p, c, s)
    \/ \E p \in Sessions : MongoAddUpdate(p)
    \/ \E p \in Sessions : MongoAddInsert(p)
    \/ \E p \in Sessions : MongoRemoveDelete(p)
    \/ \E p \in Sessions : MongoRemoveUpdate(p)
    \/ \E p \in Sessions, c \in Chats : MongoRemoveSubscriber(p, c)

Spec == Init /\ [][Next]_vars

(***************************************************************************)
(* api/webhook.py: the LanguageManager, next to the MongoDB-backed         *)
(* SubscriberManager.                                                      *)
(***************************************************************************)
\* the languages the bot offers next to the default
Languages == {"de", "en"}

set_language_without_upsert(langs, chat_id, language) ==
    IF chat_id \in DOMAIN langs
    THEN [langs EXCEPT ![chat_id].language = language]
    ELSE langs

\* update_one({'chat_id': chat_id}, {'$set': {'language': language}}, upsert=True)
set_language(langs, chat_id, language) ==
    IF chat_id \in DOMAIN langs
    THEN [langs EXCEPT ![chat_id].language = language]
    ELSE DictSet(langs, chat_id, [chat_id |-> chat_id, language |-> language])

get_language(langs, chat_id) ==
    IF chat_id \in DOMAIN langs THEN langs[chat_id].language ELSE "ru"

has_language_set(langs, chat_id) == chat_id \in DOMAIN langs

InitLang ==
    /\ backend = "mongo"
    /\ subFile = FileAbsent
    /\ subscribers = EmptyDict
    /\ coll = EmptyDict
    /\ sess = [p \in Sessions |-> Idle]
    /\ ev = Event("init", "call", 0, "", "None", TRUE, "none")
    /\ NoDiffState
    /\ NoStoreState
    /\ NoMainState
    /\ NoProcState
    /\ NoNotifyState
    /\ NoLangState
    /\ NoBroadcastState

\* set_language is one call to the collection; the event carries the language
\* in the place of the second argument
SetLanguage(c, language) ==
    /\ backend = "mongo"
    /\ languages' = set_language(languages, c, language)
    /\ ev' = Event("set_language", "call", c, language, "None", TRUE, "update_one")
    /\ UNCHANGED <<backend, subscribers, subFile, coll, sess, diffVars, storeVars, mainVars, procVars, notifyVars, bcastVars>>

\* the subscription handlers of one webhook invocation at a time, and
\* set_language at any moment between their steps
NextLang ==
    \/ \E c \in Chats, s \in Sources : MongoAddSubscription("w1", c, s)
    \/ \E c \in Chats, s \in Sources : MongoRemoveSubscription("w1", c, s)
    \/ MongoAddUpdate("w1")
    \/ MongoAddInsert("w1")
    \/ MongoRemoveDelete("w1")
    \/ MongoRemoveUpdate("w1")
    \/ \E c \in Chats : MongoRemoveSubscriber("w1", c)
    \/ \E c \in Chats, language \in Languages : SetLanguage(c, language)

SpecLang == InitLang /\ [][NextLang]_vars

(***************************************************************************)
(* api/webhook.py: the /broadcast command.  ADMIN_CHAT_IDS is a comma      *)
(* separated string; a piece of it is a chat id, blank, or text that int() *)
(* rejects.  The message text is the list of words split() makes of it.    *)
(***************************************************************************)
Piece(text, id) == [text |-> text, id |-> id]

Blank == Piece("blank", 0)
Junk  == Piece("junk", 0)

\* id.strip() is non-empty
Stripped(env) == SelectSeq(env, LAMBDA t : t.text # "blank")

\* [int(id.strip()) for id in admin_chat_ids_str.split(',') if id.strip()]
admin_chat_ids(env) ==
    IF \E i \in DOMAIN Stripped(env) : Stripped(env)[i].text = "junk"
    THEN [raises |-> "ValueError", ids |-> {}]
    ELSE [raises |-> "none", ids |-> {Stripped(env)[i].id : i \in DOMAIN Stripped(env)}]

\* one message handed to bot.send_message
Sent(to, text) == [to |-> to, text |-> text]

handle_broadcast_command_without_admin_test(c, env, chat_id, words, status_ok, fails) ==
    LET all_subscribers == Mongo_get_all_subscribers(c)
        total == Cardinality(all_subscribers)
    IN  IF Len(words) < 2 THEN Replied("broadcast_usage")
        ELSE IF total = 0 THEN Replied("no_subscribers")
        ELSE [raises |-> "none", ret |-> "broadcast_success",
              sent |-> {Sent(chat_id, "broadcast_sending")}
                       \cup {Sent(r, words[2]) : r \in all_subscribers \ fails},
              success_count |-> Cardinality(all_subscribers \ fails),
              total |-> total]

\* handle_broadcast_command: status_ok tells whether the progress message to
\* the sender goes out, fails are the subscribers whose send_message raises
handle_broadcast_command(c, env, chat_id, words, status_ok, fails) ==
    LET admins == admin_chat_ids(env)
        all_subscribers == Mongo_get_all_subscribers(c)
        total == Cardinality(all_subscribers)
    IN  IF admins.raises # "none"
        THEN [Replied("None") EXCEPT !.raises = admins.raises]
        ELSE IF chat_id \notin admins.ids THEN Replied("broadcast_no_permission")
        ELSE IF Len(words) < 2 THEN Replied("broadcast_usage")
        ELSE IF total = 0 THEN Replied("no_subscribers")
        ELSE IF ~status_ok
        THEN [Replied("None") EXCEPT !.raises = "TelegramError", !.total = total]
        ELSE [raises |-> "none", ret |-> "broadcast_success",
              sent |-> {Sent(chat_id, "broadcast_sending")}
                       \cup {Sent(r, words[2]) : r \in all_subscribers \ fails},
              success_count |-> Cardinality(all_subscribers \ fails),
              total |-> total]

\* the values ADMIN_CHAT_IDS takes: unset, only blanks, one admin, blanks
\* around it, two admins, a piece that is no number
AdminEnvs ==
    {<<>>, <<Blank>>, <<Piece("id", 1)>>, <<Blank, Piece("id", 1), Blank>>,
     <<Piece("id", 1), Piece("id", 2)>>, <<Piece("id", 1), Junk>>}

\* "/broadcast" alone and "/broadcast hello"
BroadcastTexts == {<<"/broadcast">>, <<"/broadcast", "hello">>}

InitBroadcast ==
    /\ backend = "mongo"
    /\ subFile = FileAbsent
    /\ subscribers = EmptyDict
    /\ coll = EmptyDict
    /\ sess = [p \in Sessions |-> Idle]
    /\ ev = Event("init", "call", 0, "", "None", TRUE, "none")
    /\ NoDiffState
    /\ NoStoreState
    /\ NoMainState
    /\ NoProcState
    /\ NoNotifyState
    /\ NoLangState
    /\ bcast \in {[NoBroadcast EXCEPT !.env = e] : e \in AdminEnvs}

\* process_update for a text that starts with /broadcast: the handler, then
\* the reply to the sender when the handler returned a text; a behaviour
\* holds one such update
ProcessBroadcast(chat_id, words) ==
    /\ backend = "mongo"
    /\ ~bcast.called
    /\ \E status_ok \in BOOLEAN, reply_ok \in BOOLEAN,
          fails \in SUBSET Mongo_get_all_subscribers(coll) :
          LET r == handle_broadcast_command(coll, bcast.env, chat_id, words,
                                            status_ok, fails)
          IN  /\ bcast' = [bcast EXCEPT !.called = TRUE, !.chat_id = chat_id,
                                        !.words = words, !.result = r,
                                        !.replied = r.raises = "none" /\ reply_ok]
              /\ ev' = Event("broadcast", "call", chat_id, "",
                             IF r.raises = "none" THEN r.ret ELSE r.raises,
                             TRUE, "none")
    /\ UNCHANGED <<backend, subscribers, subFile, coll, sess, diffVars, storeVars, mainVars, procVars, notifyVars, langVars>>

\* the subscription handlers of one webhook invocation at a time, and a
\* /broadcast update from any chat between their steps
NextBroadcast ==
    \/ \E c \in Chats, s \in Sources : MongoAddSubscription("w1", c, s)
    \/ \E c \in Chats, s \in Sources : MongoRemoveSubscription("w1", c, s)
    \/ MongoAddUpdate("w1")
    \/ MongoAddInsert("w1")
    \/ MongoRemoveDelete("w1")
    \/ MongoRemoveUpdate("w1")
    \/ \E c \in Chats : MongoRemoveSubscriber("w1", c)
    \/ \E c \in Chats, words \in BroadcastTexts : ProcessBroadcast(c, words)

SpecBroadcast == InitBroadcast /\ [][NextBroadcast]_vars

(***************************************************************************)
(* src/src/models.py and src/src/storage.py: film records and the diff.    *)
(***************************************************************************)
Showtime(date, time, room, language) ==
    [date |-> date, time |-> time, room |-> room, language |-> language]

Film(title, genres, fsk_rating, duration, description, poster_url, showtimes, film_id) ==
    [title |-> title, genres |-> genres, fsk_rating |-> fsk_rating,
     duration |-> duration, description |-> description,
     poster_url |-> poster_url, showtimes |-> showtimes, film_id |-> film_id]

ProgramSnapshot(timestamp, films) == [timestamp |-> timestamp, films |-> films]

\* {film.title: film for film in films}: a later film replaces an earlier one
\* of the same title
FilmsDict_first_wins(films) ==
    [t \in {films[i].title : i \in DOMAIN films} |->
        films[CHOOSE i \in DOMAIN films :
                  films[i].title = t
                      /\ \A j \in DOMAIN films : films[j].title = t => i <= j]]

FilmsDict(films) ==
    [t \in {films[i].title : i \in DOMAIN films} |->
        films[CHOOSE i \in DOMAIN films :
                  films[i].title = t
                      /\ \A j \in DOMAIN films : films[j].title = t => j <= i]]

\* the orders in which iterating a Python set can yield its elements
Orderings(S) ==
    {q \in [1..Cardinality(S) -> S] :
        \A i, j \in 1..Cardinality(S) : q[i] = q[j] => i = j}

ShowtimeTuples(film) ==
    {<<film.showtimes[i].date, film.showtimes[i].time, film.showtimes[i].room,
       film.showtimes[i].language>> : i \in DOMAIN film.showtimes}

_film_changed_ordered(old_film, new_film) ==
    IF old_film.description # new_film.description THEN TRUE
    ELSE old_film.showtimes # new_film.showtimes

_film_changed_whole_record(old_film, new_film) ==
    old_film # new_film

_film_changed(old_film, new_film) ==
    IF old_film.description # new_film.description THEN TRUE
    ELSE ShowtimeTuples(old_film) # ShowtimeTuples(new_film)

\* the updated list: the titles of both dicts, in some order, kept when changed
RECURSIVE UpdatedOf(_, _, _)
UpdatedOf(order, old_films_dict, new_films_dict) ==
    IF order = <<>> THEN <<>>
    ELSE LET title == Head(order)
             rest  == UpdatedOf(Tail(order), old_films_dict, new_films_dict)
         IN  IF _film_changed(old_films_dict[title], new_films_dict[title])
             THEN <<new_films_dict[title]>> \o rest
             ELSE rest

compare_snapshots_silent_first_run(old_snapshot, new_films) ==
    IF old_snapshot = None
    THEN {[new |-> <<>>, removed |-> <<>>, updated |-> <<>>]}
    ELSE LET old_films_dict == FilmsDict(old_snapshot[1].films)
             new_films_dict == FilmsDict(new_films)
         IN  {[new     |-> [i \in DOMAIN o1 |-> new_films_dict[o1[i]]],
               removed |-> [i \in DOMAIN o2 |-> old_films_dict[o2[i]]],
               updated |-> UpdatedOf(o3, old_films_dict, new_films_dict)] :
                 o1 \in Orderings(DOMAIN new_films_dict \ DOMAIN old_films_dict),
                 o2 \in Orderings(DOMAIN old_films_dict \ DOMAIN new_films_dict),
                 o3 \in Orderings(DOMAIN old_films_dict \cap DOMAIN new_films_dict)}

compare_snapshots_no_change_test(old_snapshot, new_films) ==
    IF old_snapshot = None
    THEN {[new |-> new_films, removed |-> <<>>, updated |-> <<>>]}
    ELSE LET old_films_dict == FilmsDict(old_snapshot[1].films)
             new_films_dict == FilmsDict(new_films)
         IN  {[new     |-> [i \in DOMAIN o1 |-> new_films_dict[o1[i]]],
               removed |-> [i \in DOMAIN o2 |-> old_films_dict[o2[i]]],
               updated |-> [i \in DOMAIN o3 |-> new_films_dict[o3[i]]]] :
                 o1 \in Orderings(DOMAIN new_films_dict \ DOMAIN old_films_dict),
                 o2 \in Orderings(DOMAIN old_films_dict \ DOMAIN new_films_dict),
                 o3 \in Orderings(DOMAIN old_films_dict \cap DOMAIN new_films_dict)}

compare_snapshots_new_without_set_difference(old_snapshot, new_films) ==
    IF old_snapshot = None
    THEN {[new |-> new_films, removed |-> <<>>, updated |-> <<>>]}
    ELSE LET old_films_dict == FilmsDict(old_snapshot[1].films)
             new_films_dict == FilmsDict(new_films)
         IN  {[new     |-> [i \in DOMAIN o1 |-> new_films_dict[o1[i]]],
               removed |-> [i \in DOMAIN o2 |-> old_films_dict[o2[i]]],
               updated |-> UpdatedOf(o3, old_films_dict, new_films_dict)] :
                 o1 \in Orderings(DOMAIN new_films_dict),
                 o2 \in Orderings(DOMAIN old_films_dict \ DOMAIN new_films_dict),
                 o3 \in Orderings(DOMAIN old_films_dict \cap DOMAIN new_films_dict)}

\* the triples compare_snapshots can return: the three lists are built by
\* iterating sets of titles, whose order is not fixed
compare_snapshots(old_snapshot, new_films) ==
    IF old_snapshot = None
    THEN {[new |-> new_films, removed |-> <<>>, updated |-> <<>>]}
    ELSE LET old_films_dict == FilmsDict(old_snapshot[1].films)
             new_films_dict == FilmsDict(new_films)
             new_film_titles     == DOMAIN new_films_dict \ DOMAIN old_films_dict
             removed_film_titles == DOMAIN old_films_dict \ DOMAIN new_films_dict
             common_titles       == DOMAIN old_films_dict \cap DOMAIN new_films_dict
         IN  {[new     |-> [i \in DOMAIN o1 |-> new_films_dict[o1[i]]],
               removed |-> [i \in DOMAIN o2 |-> old_films_dict[o2[i]]],
               updated |-> UpdatedOf(o3, old_films_dict, new_films_dict)] :
                 o1 \in Orderings(new_film_titles),
                 o2 \in Orderings(removed_film_titles),
                 o3 \in Orderings(common_titles)}

(***************************************************************************)
(* The listings the diff is applied to.                                    *)
(***************************************************************************)
StA     == Showtime("Mo.15.12", "18:00", "Kino 1", None)
StDate  == Showtime("Di.16.12", "18:00", "Kino 1", None)
StTime  == Showtime("Mo.15.12", "20:30", "Kino 1", None)
StRoom  == Showtime("Mo.15.12", "18:00", "Kino 2", None)
StLang  == Showtime("Mo.15.12", "18:00", "Kino 1", Some("OmU"))
Showtimes == {StA, StDate, StTime, StRoom, StLang}

ShowtimeLists == UNION {[1..k -> Showtimes] : k \in 0..MaxShowtimes}

Descriptions == {None, Some("a"), Some("b")}

\* the fields the change predicate does not read
Display(genres, fsk_rating, duration, poster_url, film_id) ==
    [genres |-> genres, fsk_rating |-> fsk_rating, duration |-> duration,
     poster_url |-> poster_url, film_id |-> film_id]

BaseDisplay == Display(<<"Drama">>, Some("FSK 12"), Some(90), Some("p1.jpg"), Some("id1"))
AllDisplay  == Display(<<"Drama", "Krimi">>, None, Some(120), None, Some("id2"))
DisplayVariants ==
    {BaseDisplay, AllDisplay,
     Display(<<>>, Some("FSK 12"), Some(90), Some("p1.jpg"), Some("id1")),
     Display(<<"Drama">>, None, Some(90), Some("p1.jpg"), Some("id1")),
     Display(<<"Drama">>, Some("FSK 12"), None, Some("p1.jpg"), Some("id1")),
     Display(<<"Drama">>, Some("FSK 12"), Some(90), Some("p2.jpg"), Some("id1")),
     Display(<<"Drama">>, Some("FSK 12"), Some(90), Some("p1.jpg"), None)}

MkFilm(title, description, showtimes, d) ==
    Film(title, d.genres, d.fsk_rating, d.duration, description, d.poster_url,
         showtimes, d.film_id)

Titles == {"X", "Y", "Z"}

\* listings of whole programmes: three titles, each in two versions that differ
\* in one showtime
SmallFilms ==
    {MkFilm(t, Some("a"), <<st>>, BaseDisplay) : t \in Titles, st \in {StA, StTime}}

ListingsOver(F, n) == UNION {[1..k -> F] : k \in 0..n}

\* two versions of one title: every description against every description and
\* every display variant, and every showtime list against every showtime list
VersionPairs ==
    {<<MkFilm("X", d1, s1, BaseDisplay), MkFilm("X", d2, s2, dv)>> :
        d1 \in Descriptions, d2 \in Descriptions,
        s1 \in {<<>>, <<StA>>}, s2 \in {<<>>, <<StA>>}, dv \in DisplayVariants}
    \cup
    {<<MkFilm("X", d, s1, BaseDisplay), MkFilm("X", d, s2, dv)>> :
        d \in {None, Some("a")}, s1 \in ShowtimeLists, s2 \in ShowtimeLists,
        dv \in {BaseDisplay, AllDisplay}}

NoSubsState ==
    /\ backend = "file"
    /\ subFile = FileAbsent
    /\ subscribers = EmptyDict
    /\ coll = EmptyDict
    /\ sess = [p \in Sessions |-> Idle]
    /\ ev = Event("init", "call", 0, "", "None", TRUE, "none")

InitDiff ==
    /\ NoSubsState
    /\ NoStoreState
    /\ NoMainState
    /\ NoProcState
    /\ NoNotifyState
    /\ NoLangState
    /\ NoBroadcastState
    /\ diff = None
    /\ \/ /\ current \in ListingsOver(SmallFilms, MaxFilms)
          /\ previous \in {None} \cup
                 {Some(ProgramSnapshot("t0", l)) : l \in ListingsOver(SmallFilms, MaxFilms)}
       \/ \E pair \in VersionPairs :
              /\ previous = Some(ProgramSnapshot("t0", <<pair[1]>>))
              /\ current = <<pair[2]>>

CompareSnapshots ==
    /\ diff = None
    /\ \E r \in compare_snapshots(previous, current) : diff' = Some(r)
    /\ UNCHANGED <<previous, current, subVars, storeVars, mainVars, procVars, notifyVars, langVars, bcastVars>>

NextDiff == CompareSnapshots

SpecDiff == InitDiff /\ [][NextDiff]_vars

(***************************************************************************)
(* src/src/models.py, src/src/storage.py: the snapshot file.  A file holds *)
(* the JSON text json.dump wrote: a string, a number or null per scalar.   *)
(***************************************************************************)
JsonNull      == [t |-> "null"]
JsonString(s) == [t |-> "string", v |-> s]
JsonNumber(n) == [t |-> "number", v |-> n]

\* an Optional[str] / Optional[int] attribute as JSON, and a JSON scalar as the
\* Optional attribute that json.load and dict.get hand back
DumpOptStr(x) == IF x = None THEN JsonNull ELSE JsonString(x[1])
DumpOptInt(x) == IF x = None THEN JsonNull ELSE JsonNumber(x[1])
LoadOpt(j)    == IF j.t = "null" THEN None ELSE Some(j.v)

\* dict.get(key, default)
Get(d, key, default) == IF key \in DOMAIN d THEN d[key] ELSE default

Showtime_to_dict(st) ==
    [date |-> JsonString(st.date), time |-> JsonString(st.time),
     room |-> JsonString(st.room), language |-> DumpOptStr(st.language)]

Film_to_dict_without_film_id(film) ==
    [title       |-> JsonString(film.title),
     genres      |-> [i \in DOMAIN film.genres |-> JsonString(film.genres[i])],
     fsk_rating  |-> DumpOptStr(film.fsk_rating),
     duration    |-> DumpOptInt(film.duration),
     description |-> DumpOptStr(film.description),
     poster_url  |-> DumpOptStr(film.poster_url),
     showtimes   |-> [i \in DOMAIN film.showtimes |->
                         Showtime_to_dict(film.showtimes[i])]]

Film_to_dict(film) ==
    [title       |-> JsonString(film.title),
     genres      |-> [i \in DOMAIN film.genres |-> JsonString(film.genres[i])],
     fsk_rating  |-> DumpOptStr(film.fsk_rating),
     duration    |-> DumpOptInt(film.duration),
     description |-> DumpOptStr(film.description),
     poster_url  |-> DumpOptStr(film.poster_url),
     film_id     |-> DumpOptStr(film.film_id),
     showtimes   |-> [i \in DOMAIN film.showtimes |->
                         Showtime_to_dict(film.showtimes[i])]]

Showtime_from_dict(st) ==
    Showtime(st.date.v, st.time.v, st.room.v, LoadOpt(Get(st, "language", JsonNull)))

Film_from_dict(data) ==
    LET sts    == Get(data, "showtimes", <<>>)
        genres == Get(data, "genres", <<>>)
    IN  Film(data.title.v,
             [i \in DOMAIN genres |-> genres[i].v],
             LoadOpt(Get(data, "fsk_rating", JsonNull)),
             LoadOpt(Get(data, "duration", JsonNull)),
             LoadOpt(Get(data, "description", JsonNull)),
             LoadOpt(Get(data, "poster_url", JsonNull)),
             [i \in DOMAIN sts |-> Showtime_from_dict(sts[i])],
             LoadOpt(Get(data, "film_id", JsonNull)))

ProgramSnapshot_to_dict(snapshot) ==
    [timestamp |-> JsonString(snapshot.timestamp),
     films     |-> [i \in DOMAIN snapshot.films |-> Film_to_dict(snapshot.films[i])]]

ProgramSnapshot_from_dict(data) ==
    LET films == Get(data, "films", <<>>)
    IN  ProgramSnapshot(data.timestamp.v,
                        [i \in DOMAIN films |-> Film_from_dict(films[i])])

\* A parsed JSON document: an object is the record of its keys, an array a
\* sequence, and null, a string or a number is a record tagged t.
IsJsonScalar(j) == "t" \in DOMAIN j

\* the exception of the first element whose conversion raises, in list order
FirstRaised(raised) ==
    LET bad == {i \in DOMAIN raised : raised[i] # "none"}
    IN  IF bad = {} THEN "none"
        ELSE raised[CHOOSE i \in bad : \A k \in bad : i <= k]

\* st["date"], st["time"], st["room"] of Film.from_dict: subscripting null, a
\* number or a string with a string raises TypeError, a dict lacking the key
\* raises KeyError
Showtime_from_dict_raises(st) ==
    IF IsJsonScalar(st) THEN "TypeError"
    ELSE IF {"date", "time", "room"} \ DOMAIN st # {} THEN "KeyError"
    ELSE "none"

\* Film.from_dict evaluates the showtimes first and data["title"] after them;
\* data.get on null, a number or a string raises AttributeError
Film_from_dict_raises(data) ==
    IF IsJsonScalar(data) THEN "AttributeError"
    ELSE LET sts == Get(data, "showtimes", <<>>)
             r   == FirstRaised([k \in DOMAIN sts |->
                                    Showtime_from_dict_raises(sts[k])])
         IN  IF r # "none" THEN r
             ELSE IF "title" \notin DOMAIN data THEN "KeyError"
             ELSE "none"

\* ProgramSnapshot.from_dict evaluates the films first and data["timestamp"]
\* after them
ProgramSnapshot_from_dict_raises(data) ==
    IF IsJsonScalar(data) THEN "AttributeError"
    ELSE LET films == Get(data, "films", <<>>)
             r     == FirstRaised([i \in DOMAIN films |->
                                      Film_from_dict_raises(films[i])])
         IN  IF r # "none" THEN r
             ELSE IF "timestamp" \notin DOMAIN data THEN "KeyError"
             ELSE "none"

StorageDir == "state"

\* Storage.__init__: the snapshot file depends on the directory alone
Storage(storage_dir) ==
    [storage_dir |-> storage_dir,
     snapshot_file |-> <<storage_dir, "latest_snapshot.json">>]

\* the Storage object the caller working on a source gets in a directory
StorageFor(source_id) == Storage(StorageDir)

\* open(..., 'w') truncates, json.dump writes; an OSError leaves the method
SnapshotSaveOutcomes == {"ok", "open_error", "write_error"}

save_snapshot(self, files, films, now, io) ==
    LET snapshot == ProgramSnapshot(now, films)
    IN  CASE io = "ok" ->
                 [fs  |-> DictSet(files, self.snapshot_file,
                                  [kind |-> "json",
                                   data |-> ProgramSnapshot_to_dict(snapshot)]),
                  ret |-> "ok"]
          [] io = "open_error" ->
                 [fs |-> files, ret |-> "OSError"]
          [] io = "write_error" ->
                 [fs  |-> DictSet(files, self.snapshot_file, [kind |-> "corrupt"]),
                  ret |-> "OSError"]

\* the exceptions the except clause of load_snapshot names
LoadCaught == {"JSONDecodeError", "KeyError"}

\* raises: the exception that leaves load_snapshot, "none" when it returns;
\* value: what it returns
load_snapshot(self, files) ==
    IF self.snapshot_file \notin DOMAIN files
    THEN [raises |-> "none", value |-> None]
    ELSE LET file   == files[self.snapshot_file]
             raised == IF file.kind = "corrupt" THEN "JSONDecodeError"
                       ELSE ProgramSnapshot_from_dict_raises(file.data)
         IN  IF raised = "none"
             THEN [raises |-> "none",
                   value  |-> Some(ProgramSnapshot_from_dict(file.data))]
             ELSE IF raised \in LoadCaught
             THEN [raises |-> "none", value |-> None]
             ELSE [raises |-> raised, value |-> None]

(***************************************************************************)
(* The snapshot store as a state machine: callers working on a source save *)
(* the listing they scraped and load the snapshot before comparing.        *)
(***************************************************************************)
Timestamps == {"2025-12-15T08:00:00", "2025-12-16T08:00:00"}

StoreFilms ==
    {MkFilm("X", d, sl, dv) :
        d \in {None, Some("a")},
        sl \in UNION {[1..k -> {StA, StLang}] : k \in 0..MaxShowtimes},
        dv \in {BaseDisplay, AllDisplay, Display(<<>>, None, None, None, None)}}

StoreListings ==
    ListingsOver({MkFilm(t, Some("a"), <<StA>>, BaseDisplay) : t \in {"X", "Y"}},
                 MaxFilms)
        \cup {<<f>> : f \in StoreFilms}

\* What the snapshot file may hold when an invocation starts: nothing, text
\* that is not JSON, and JSON documents that are not a snapshot as to_dict
\* writes it.
TsJson == JsonString("2025-12-14T08:00:00")

PartialSnapshots ==
    { [timestamp |-> TsJson],
      [films |-> <<>>],
      [timestamp |-> TsJson, films |-> <<[genres |-> <<>>]>>],
      [timestamp |-> TsJson,
       films |-> <<[title |-> JsonString("X"),
                    showtimes |-> <<[date |-> JsonString("Mo.15.12"),
                                     time |-> JsonString("18:00")]>>]>>] }

MisshapenSnapshots ==
    { JsonNull,
      [timestamp |-> TsJson, films |-> <<JsonNumber(7)>>],
      [films |-> <<JsonNull>>],
      [timestamp |-> TsJson,
       films |-> <<[title |-> JsonString("X"),
                    showtimes |-> <<JsonString("Mo.15.12 18:00")>>]>>] }

PersistedContents ==
    {[kind |-> "corrupt"]}
        \cup {[kind |-> "json", data |-> d] :
                 d \in PartialSnapshots \cup MisshapenSnapshots}

InitialSnapshotFiles ==
    {EmptyDict}
        \cup {DictSet(EmptyDict, Storage(StorageDir).snapshot_file, c) :
                 c \in PersistedContents}

InitStore ==
    /\ NoSubsState
    /\ NoDiffState
    /\ NoMainState
    /\ NoProcState
    /\ NoNotifyState
    /\ NoLangState
    /\ NoBroadcastState
    /\ fs \in InitialSnapshotFiles
    /\ sev = StoreEvent("init", "", <<>>, "none", None)

SaveSnapshot(source, films) ==
    \E now \in Timestamps, io \in SnapshotSaveOutcomes :
        LET r == save_snapshot(StorageFor(source), fs, films, now, io)
        IN  /\ fs' = r.fs
            /\ sev' = StoreEvent("save", source,
                                  IF r.ret = "ok" THEN films ELSE <<>>, r.ret, None)
            /\ UNCHANGED <<subVars, diffVars, mainVars, procVars, notifyVars, langVars, bcastVars>>

LoadSnapshot(source) ==
    /\ LET r == load_snapshot(StorageFor(source), fs)
       IN  sev' = StoreEvent("load", source, <<>>, r.raises, r.value)
    /\ UNCHANGED <<fs, subVars, diffVars, mainVars, procVars, notifyVars, langVars, bcastVars>>

NextStore ==
    \/ \E source \in Sources, films \in StoreListings : SaveSnapshot(source, films)
    \/ \E source \in Sources : LoadSnapshot(source)

SpecStore == InitStore /\ [][NextStore]_vars

(***************************************************************************)
(* src/src/notifier.py: the notifier main() constructs and calls.          *)
(***************************************************************************)
\* int(chat_id) succeeds on the decimal strings and raises ValueError otherwise
IsIntStr(k) == \E n \in Chats : IntToStr(n) = k

\* notifier.py:32-36 and 39-44: add_subscriber(int(chat_id)), ValueError passed
AddConfiguredChat(m, chat_id, io) ==
    IF chat_id = None THEN m
    ELSE IF ~IsIntStr(chat_id[1]) THEN m
    ELSE LET r == add_subscriber(m.subscribers, StrToInt(chat_id[1]))
         IN  [subscribers |-> r.subscribers,
              subFile     |-> IF r.save
                              THEN _save_subscribers(r.subscribers, m.subFile, io)
                              ELSE m.subFile]

\* notifier.py:28-44: the part of __init__ after the token test
NotifierSetup(chat_id, env_chat_id, file, io1, io2) ==
    LET m0 == [subscribers |-> _load_subscribers(file), subFile |-> file]
        m1 == AddConfiguredChat(m0, chat_id, io1)
        m2 == AddConfiguredChat(m1, env_chat_id, io2)
    IN  [raises |-> "none", subscribers |-> m2.subscribers, subFile |-> m2.subFile]

TelegramNotifier_init_without_token_test(bot_token, env_token, chat_id, env_chat_id, subs, file, io1, io2) ==
    NotifierSetup(chat_id, env_chat_id, file, io1, io2)

\* subs, file: the manager's records (none before the constructor runs) and
\* state/subscribers.json
TelegramNotifier_init(bot_token, env_token, chat_id, env_chat_id, subs, file, io1, io2) ==
    LET token == IF bot_token # None THEN bot_token ELSE env_token
    IN  IF token = None
        THEN [raises |-> "ValueError", subscribers |-> subs, subFile |-> file]
        ELSE NotifierSetup(chat_id, env_chat_id, file, io1, io2)

\* what the messages of one recipient meet in main's runs: every call
\* succeeds, or the first call raises TelegramError or another exception
SendOutcomes == {"ok", "TelegramError", "Exception"}

Fails(o) ==
    IF o.at = 0 THEN {} ELSE IF o.again THEN {o.at, o.at + 1} ELSE {o.at}

FirstCall(outcome) ==
    IF outcome = "ok" THEN NetOk ELSE TelegramBehaviour(1, FALSE, outcome)

\* one call of bot.send_message or bot.send_photo that the Bot API accepted
Message(method, kind, prefix, title, titles, counts) ==
    [method |-> method, kind |-> kind, prefix |-> prefix, title |-> title,
     titles |-> titles, counts |-> counts]

\* notifier.py:159-195: the header names how many films are new, updated, removed
_format_header(new_films, removed_films, updated_films) ==
    Message("send_message", "header", "", "", <<>>,
            <<Len(new_films), Len(updated_films), Len(removed_films)>>)

\* notifier.py:107-114: one line per removed film
RemovedSummary(removed_films) ==
    Message("send_message", "removed", "", "",
            [i \in DOMAIN removed_films |-> removed_films[i].title], <<>>)

FilmMessage(method, film, prefix) ==
    Message(method, "film", prefix, film.title, <<>>, <<>>)

\* films[:n]
Take(films, n) == SubSeq(films, 1, IF Len(films) < n THEN Len(films) ELSE n)

\* notifier.py:97 and 102
NewFilmLimit     == 10
UpdatedFilmLimit == 10

\* k: the number of the next call for this chat; the result carries the
\* exception that left the method, the messages accepted and the next k
_send_film_with_photo(film, prefix, k, o) ==
    IF film.poster_url # None
    THEN IF k \notin Fails(o)
         THEN [raises |-> "none", log |-> <<FilmMessage("send_photo", film, prefix)>>,
               k |-> k + 1]
         ELSE IF o.exc = "TelegramError"
         THEN IF k + 1 \notin Fails(o)
              THEN [raises |-> "none",
                    log |-> <<FilmMessage("send_message", film, prefix)>>,
                    k |-> k + 2]
              ELSE [raises |-> o.exc, log |-> <<>>, k |-> k + 2]
         ELSE [raises |-> o.exc, log |-> <<>>, k |-> k + 1]
    ELSE IF k \notin Fails(o)
         THEN [raises |-> "none",
               log |-> <<FilmMessage("send_message", film, prefix)>>, k |-> k + 1]
         ELSE [raises |-> o.exc, log |-> <<>>, k |-> k + 1]

\* for film in films: await self._send_film_with_photo(film, prefix, chat_id)
RECURSIVE SendFilms(_, _, _, _)
SendFilms(films, prefix, k, o) ==
    IF films = <<>> THEN [raises |-> "none", log |-> <<>>, k |-> k]
    ELSE LET r == _send_film_with_photo(Head(films), prefix, k, o)
         IN  IF r.raises # "none" THEN r
             ELSE LET rest == SendFilms(Tail(films), prefix, r.k, o)
                  IN  [raises |-> rest.raises, log |-> r.log \o rest.log,
                       k |-> rest.k]

SendToRecipient_updated_before_new(new_films, removed_films, updated_films, o) ==
    IF 1 \in Fails(o) THEN [raises |-> o.exc, log |-> <<>>]
    ELSE
    LET header == <<_format_header(new_films, removed_films, updated_films)>>
        u == SendFilms(Take(updated_films, UpdatedFilmLimit), "updated", 2, o)
        n == SendFilms(Take(new_films, NewFilmLimit), "new", u.k, o)
    IN  IF u.raises # "none"
        THEN [raises |-> u.raises, log |-> header \o u.log]
        ELSE IF n.raises # "none"
        THEN [raises |-> n.raises, log |-> header \o u.log \o n.log]
        ELSE IF removed_films = <<>>
        THEN [raises |-> "none", log |-> header \o u.log \o n.log]
        ELSE IF n.k \in Fails(o)
        THEN [raises |-> o.exc, log |-> header \o u.log \o n.log]
        ELSE [raises |-> "none",
              log |-> header \o u.log \o n.log \o <<RemovedSummary(removed_films)>>]

\* notifier.py:84-116: the body of the try statement of one recipient
SendToRecipient(new_films, removed_films, updated_films, o) ==
    IF 1 \in Fails(o) THEN [raises |-> o.exc, log |-> <<>>]
    ELSE
    LET header == <<_format_header(new_films, removed_films, updated_films)>>
        n == SendFilms(Take(new_films, NewFilmLimit), "new", 2, o)
        u == SendFilms(Take(updated_films, UpdatedFilmLimit), "updated", n.k, o)
    IN  IF n.raises # "none"
        THEN [raises |-> n.raises, log |-> header \o n.log]
        ELSE IF u.raises # "none"
        THEN [raises |-> u.raises, log |-> header \o n.log \o u.log]
        ELSE IF removed_films = <<>>
        THEN [raises |-> "none", log |-> header \o n.log \o u.log]
        ELSE IF u.k \in Fails(o)
        THEN [raises |-> o.exc, log |-> header \o n.log \o u.log]
        ELSE [raises |-> "none",
              log |-> header \o n.log \o u.log \o <<RemovedSummary(removed_films)>>]

\* notifier.py:82-120: the loop over the recipients; a TelegramError is
\* caught per recipient and counted, any other exception leaves the method
RECURSIVE SendTo(_, _, _, _, _)
SendTo(order, new_films, removed_films, updated_films, net) ==
    IF order = <<>> THEN NoSend
    ELSE LET chat_id == Head(order)
             r == SendToRecipient(new_films, removed_films, updated_films,
                                  net[chat_id])
         IN  IF r.raises \notin {"none", "TelegramError"}
             THEN [NoSend EXCEPT !.raises = r.raises,
                                 !.log[chat_id] = r.log,
                                 !.attempted = <<chat_id>>]
             ELSE LET rest == SendTo(Tail(order), new_films, removed_films,
                                     updated_films, net)
                      ok   == r.raises = "none"
                  IN  [raises    |-> rest.raises,
                       delivered |-> rest.delivered \cup
                                         (IF ok THEN {chat_id} ELSE {}),
                       log       |-> [rest.log EXCEPT ![chat_id] = r.log],
                       attempted |-> <<chat_id>> \o rest.attempted,
                       success_count |-> rest.success_count + (IF ok THEN 1 ELSE 0),
                       error_count   |-> rest.error_count + (IF ok THEN 0 ELSE 1)]

send_update_notification_without_subscriber_test(subs, source_id, new_films, removed_films, updated_films, net) ==
    IF new_films = <<>> /\ removed_films = <<>> /\ updated_films = <<>>
    THEN {NoSend}
    ELSE {SendTo(order, new_films, removed_films, updated_films, net) :
              order \in Orderings(DOMAIN subs)}

send_update_notification_skips_a_recipient(subs, source_id, new_films, removed_films, updated_films, net) ==
    IF new_films = <<>> /\ removed_films = <<>> /\ updated_films = <<>>
    THEN {NoSend}
    ELSE LET recipients == get_subscribers_for_source(subs, source_id)
         IN  IF recipients = {} THEN {NoSend}
             ELSE {SendTo(order, new_films, removed_films, updated_films, net) :
                       order \in UNION {Orderings(recipients \ {c}) : c \in recipients}}

send_update_notification_without_changes_test(subs, source_id, new_films, removed_films, updated_films, net) ==
    LET recipients == get_subscribers_for_source(subs, source_id)
    IN  IF recipients = {} THEN {NoSend}
        ELSE {SendTo(order, new_films, removed_films, updated_films, net) :
                  order \in Orderings(recipients)}

\* the possible results, one per iteration order of the recipient set
send_update_notification(subs, source_id, new_films, removed_films, updated_films, net) ==
    IF new_films = <<>> /\ removed_films = <<>> /\ updated_films = <<>>
    THEN {NoSend}
    ELSE LET recipients == get_subscribers_for_source(subs, source_id)
         IN  IF recipients = {} THEN {NoSend}
             ELSE {SendTo(order, new_films, removed_films, updated_films, net) :
                       order \in Orderings(recipients)}

\* the calls of one notification that the Bot API lets fail
FailPoints == {1, 2, 3}

TelegramBehaviours ==
    {NetOk}
        \cup {TelegramBehaviour(at, again, "TelegramError") :
                  at \in FailPoints, again \in BOOLEAN}
        \cup {TelegramBehaviour(at, FALSE, "Exception") : at \in FailPoints}

\* the records the notifier's SubscriberManager loaded
NotifySubs ==
    {[c \in D |-> [sources |-> <<src[c]>>, language |-> DefaultLanguage]] :
         D \in SUBSET Chats, src \in [Chats -> Sources]}

WithPoster(title) == MkFilm(title, Some("a"), <<StA>>, BaseDisplay)
NoPoster(title)   == MkFilm(title, None, <<StRoom>>, AllDisplay)

\* one film more than the notifier sends, every second one without a poster
LongListing(tag) ==
    [i \in 1..(NewFilmLimit + 1) |->
        IF i % 2 = 1 THEN WithPoster(tag \o ToString(i))
        ELSE NoPoster(tag \o ToString(i))]

Changes(new_films, removed_films, updated_films) ==
    [new |-> new_films, removed |-> removed_films, updated |-> updated_films]

\* the diffs the notifier is called with
NotifyCases ==
    {Changes(<<>>, <<>>, <<>>),
     Changes(<<WithPoster("X")>>, <<>>, <<>>),
     Changes(<<>>, <<NoPoster("Y"), WithPoster("Z")>>, <<NoPoster("X")>>),
     Changes(<<WithPoster("X")>>, <<WithPoster("Z")>>, <<NoPoster("Y")>>),
     Changes(LongListing("N"), <<WithPoster("Z"), NoPoster("Y")>>, LongListing("U")),
     Changes(<<>>, <<>>, LongListing("U"))}

InitNotify ==
    /\ backend = "file"
    /\ subscribers \in NotifySubs
    /\ subFile = DumpSubscribers(subscribers)
    /\ coll = EmptyDict
    /\ sess = [p \in Sessions |-> Idle]
    /\ ev = Event("init", "call", 0, "", "None", TRUE, "none")
    /\ NoDiffState
    /\ NoStoreState
    /\ NoMainState
    /\ NoProcState
    /\ NoNotifyState
    /\ NoLangState
    /\ NoBroadcastState

\* the call of send_update_notification on a constructed notifier; the
\* result depends on the arguments and the records only, so one call is taken
SendUpdateNotification ==
    /\ ~notif.called
    /\ \E source_id \in Sources, d \in NotifyCases :
          \E n \in [get_subscribers_for_source(subscribers, source_id) ->
                        TelegramBehaviours] :
              LET recipients == get_subscribers_for_source(subscribers, source_id)
                  net == [c \in Chats |-> IF c \in recipients THEN n[c] ELSE NetOk]
              IN  \E r \in send_update_notification(subscribers, source_id, d.new,
                                                    d.removed, d.updated, net) :
                      notif' = [called        |-> TRUE,
                                source_id     |-> source_id,
                                new_films     |-> d.new,
                                removed_films |-> d.removed,
                                updated_films |-> d.updated,
                                net           |-> net,
                                result        |-> r]
    /\ UNCHANGED <<subVars, diffVars, storeVars, mainVars, procVars, langVars, bcastVars>>

NextNotify == SendUpdateNotification

SpecNotify == InitNotify /\ [][NextNotify]_vars

(***************************************************************************)
(* src/src/main.py: one invocation of the monitoring script.               *)
(***************************************************************************)
\* the parameters of Storage.__init__
StorageParams == {"storage_dir"}

\* Storage(**kwargs): a keyword the constructor does not have raises TypeError
Storage_new(kwargs) ==
    [raises |-> IF DOMAIN kwargs \subseteq StorageParams THEN "none"
                ELSE "TypeError",
     self   |-> Storage(kwargs.storage_dir)]

\* how the try statement of one source ended: the exception that left it
\* ("none" when it ran to its end), the stage it was in, the snapshot files,
\* the chats notified and the exception the notification call raised
Outcome(raised, stage, files, send) ==
    [raised |-> raised, stage |-> stage, fs |-> files,
     delivered |-> send.delivered, send_raised |-> send.raises]

\* main.py:59-108: the try statement after a scrape that returned
AfterScrape(source_id, files, subs, notifier, current_films, net, now, io) ==
    LET storage == Storage_new([storage_dir |-> StorageDir,
                                source_id   |-> source_id])
    IN  IF storage.raises # "none"
        THEN {Outcome(storage.raises, "Diffing", files, NoSend)}
        ELSE
        LET previous_snapshot == load_snapshot(storage.self, files)
        IN  IF previous_snapshot.raises # "none"
            THEN {Outcome(previous_snapshot.raises, "Diffing", files, NoSend)}
            ELSE UNION {
                LET sends == IF ~notifier THEN {NoSend}
                             ELSE send_update_notification(
                                      subs, source_id, d.new, d.removed,
                                      d.updated,
                                      [c \in Chats |-> FirstCall(net[c])])
                    saved == save_snapshot(storage.self, files, current_films,
                                           now, io)
                IN  {IF saved.ret = "ok"
                     THEN Outcome("none", "Done", saved.fs, n)
                     ELSE Outcome(saved.ret, "Persisting", saved.fs, n) :
                        n \in sends} :
                d \in compare_snapshots(previous_snapshot.value, current_films)}

TryBody_saves_after_failed_scrape(source_id, files, subs, notifier, scraped, net, now, io) ==
    IF scraped.raises # "none"
    THEN {Outcome(scraped.raises, "Scraping",
                  save_snapshot(Storage(StorageDir), files, <<>>, now, "ok").fs,
                  NoSend)}
    ELSE AfterScrape(source_id, files, subs, notifier, scraped.films, net,
                     now, io)

\* main.py:53-108: the try statement of one source
TryBody(source_id, files, subs, notifier, scraped, net, now, io) ==
    IF scraped.raises # "none"
    THEN {Outcome(scraped.raises, "Scraping", files, NoSend)}
    ELSE AfterScrape(source_id, files, subs, notifier, scraped.films, net,
                     now, io)

NextSourceIndex_stops_on_failure(i, raised) ==
    IF raised = "none" THEN i + 1 ELSE Len(RegisteredSources) + 1

\* main.py:110-114: the exception of a source is printed and the for loop
\* goes on with the next source
NextSourceIndex(i, raised) == i + 1

Tokens       == {None, Some("123:abc")}
ChatIdArgs   == {None, Some("1"), Some("me")}
EnvChatIds   == {None, Some("2")}

FilmX  == MkFilm("X", Some("a"), <<StA>>, BaseDisplay)
FilmX2 == MkFilm("X", Some("b"), <<StA, StTime>>, BaseDisplay)
FilmY  == MkFilm("Y", None, <<StRoom>>, AllDisplay)

MainListings == {<<FilmX>>, <<FilmX2, FilmY>>}

\* what the two cinema sites answer during one invocation
ScrapeOutcomes == {ScrapeRaises("HTTPError")} \cup {Scraped(l) : l \in MainListings}

MainSnapshotFiles ==
    InitialSnapshotFiles
        \cup {save_snapshot(Storage(StorageDir), EmptyDict, l,
                            "2025-12-14T08:00:00", "ok").fs : l \in MainListings}

InitMain ==
    /\ backend = "file"
    /\ subFile \in InitialSubFiles
    /\ subscribers = EmptyDict
    /\ coll = EmptyDict
    /\ sess = [p \in Sessions |-> Idle]
    /\ ev = Event("init", "call", 0, "", "None", TRUE, "none")
    /\ NoDiffState
    /\ fs \in MainSnapshotFiles
    /\ sev = StoreEvent("init", "", <<>>, "none", None)
    /\ NoMainState
    /\ NoProcState
    /\ NoNotifyState
    /\ NoLangState
    /\ NoBroadcastState

\* main.py:36-47: the registry and the notifier; an exception here is caught
\* at line 119 and main returns 1
MainStart ==
    /\ run.pc = "idle"
    /\ \E notify \in BOOLEAN, bot_token \in Tokens, env_token \in Tokens,
          chat_id \in ChatIdArgs, env_chat_id \in EnvChatIds,
          io1 \in SaveOutcomes, io2 \in SaveOutcomes,
          site \in [Sources -> ScrapeOutcomes] :
          LET n == IF notify
                   THEN TelegramNotifier_init(bot_token, env_token, chat_id,
                                              env_chat_id, subscribers,
                                              subFile, io1, io2)
                   ELSE [raises |-> "none", subscribers |-> subscribers,
                         subFile |-> subFile]
              started == [run EXCEPT !.notify = notify,
                                     !.token  = bot_token # None \/ env_token # None,
                                     !.site   = site]
          IN  /\ subscribers' = n.subscribers
              /\ subFile' = n.subFile
              /\ run' = IF n.raises # "none"
                        THEN [started EXCEPT !.pc = "exited", !.exit_code = 1]
                        ELSE [started EXCEPT !.pc = "loop", !.i = 1,
                                             !.notifier = notify]
    /\ UNCHANGED <<backend, coll, sess, ev, diffVars, storeVars, procVars, notifyVars, langVars, bcastVars>>

\* main.py:50-114: one iteration of the loop over the sources
CheckSource ==
    /\ run.pc = "loop"
    /\ run.i \in DOMAIN RegisteredSources
    /\ LET source_id == RegisteredSources[run.i]
       IN  \E net \in [Chats -> SendOutcomes], now \in Timestamps,
              io \in SnapshotSaveOutcomes :
              \E out \in TryBody(source_id, fs, subscribers, run.notifier,
                                 run.site[source_id], net, now, io) :
                  /\ fs' = out.fs
                  /\ run' = [run EXCEPT
                        !.i = NextSourceIndex(run.i, out.raised),
                        !.status[source_id] =
                            IF out.raised = "none" THEN "Done" ELSE "Failed",
                        !.stage[source_id] = out.stage,
                        !.raised[source_id] = out.raised,
                        !.send_raised[source_id] = out.send_raised,
                        !.attempted = Append(@, source_id),
                        !.sent = @ \cup {<<source_id, c>> : c \in out.delivered}]
    /\ UNCHANGED <<subVars, diffVars, sev, procVars, notifyVars, langVars, bcastVars>>

\* main.py:116-117
MainReturn ==
    /\ run.pc = "loop"
    /\ run.i \notin DOMAIN RegisteredSources
    /\ run' = [run EXCEPT !.pc = "exited", !.exit_code = 0]
    /\ UNCHANGED <<subVars, diffVars, storeVars, procVars, notifyVars, langVars, bcastVars>>

NextMain ==
    \/ MainStart
    \/ CheckSource
    \/ MainReturn

SpecMain == InitMain /\ [][NextMain]_vars

\* the interpreter runs main() to its end
SpecMainFair == SpecMain /\ WF_vars(NextMain)

(***************************************************************************)
(* src/src/subscribers.py used by several processes: each process builds   *)
(* its own SubscriberManager from state/subscribers.json and writes the    *)
(* whole of its records back on every change.                              *)
(***************************************************************************)
\* mutating calls one process makes before it ends
MaxCalls == 1

InitProcs ==
    /\ backend = "file"
    /\ subFile \in InitialSubFiles
    /\ subscribers = EmptyDict
    /\ coll = EmptyDict
    /\ sess = [p \in Sessions |-> Idle]
    /\ ev = Event("init", "call", 0, "", "None", TRUE, "none")
    /\ NoDiffState
    /\ NoStoreState
    /\ NoMainState
    /\ NoProcState
    /\ NoNotifyState
    /\ NoLangState
    /\ NoBroadcastState

\* SubscriberManager.__init__: the records are read from the file once
ProcStart(p) ==
    /\ ~managers[p].up
    /\ managers[p].calls = 0
    /\ managers' = [managers EXCEPT ![p] =
                       [up |-> TRUE, subscribers |-> _load_subscribers(subFile),
                        calls |-> 0, unsaved |-> FALSE]]
    /\ ev' = Event("__init__", "call", 0, "", "None", TRUE, "none")
    /\ UNCHANGED <<backend, subscribers, subFile, coll, sess, diffVars,
                   storeVars, mainVars, notifyVars, langVars, bcastVars>>

\* one mutating call of process p: the change of its records and, when the
\* call saves, the write of all its records to the file
ProcCall(p, op, chat, source, r) ==
    /\ managers[p].up
    /\ managers[p].calls < MaxCalls
    /\ \E io \in (IF r.save THEN SaveOutcomes ELSE {"none"}) :
          /\ subFile' = IF r.save
                        THEN _save_subscribers(r.subscribers, subFile, io)
                        ELSE subFile
          /\ managers' = [managers EXCEPT ![p] =
                             [up |-> TRUE, subscribers |-> r.subscribers,
                              calls |-> @.calls + 1,
                              unsaved |-> IF r.save THEN io # "ok" ELSE @.unsaved]]
          /\ ev' = Event(op, "call", chat, source, BoolStr(r.ret), TRUE, io)
    /\ UNCHANGED <<backend, subscribers, coll, sess, diffVars, storeVars, mainVars, notifyVars, langVars, bcastVars>>

ProcAddSubscription(p, c, s) ==
    ProcCall(p, "add_subscription", c, s,
             add_subscription(managers[p].subscribers, c, s))

ProcRemoveSubscription(p, c, s) ==
    ProcCall(p, "remove_subscription", c, s,
             remove_subscription(managers[p].subscribers, c, s))

\* where a process can be stopped inside _save_subscribers: before
\* open(..., 'w'), between the truncation by open and the end of the with
\* block (nothing or a part of the text is in the file), after the close
CrashPoints == {"before_open", "truncated", "closed"}

_save_subscribers_killed(subs, file, at) ==
    CASE at = "before_open" -> file
      [] at = "truncated"   -> FileCorrupt
      [] at = "closed"      -> DumpSubscribers(subs)

\* process p is stopped while a mutating call writes the file
ProcKilled(p, op, chat, source, r) ==
    /\ managers[p].up
    /\ managers[p].calls < MaxCalls
    /\ r.save
    /\ \E at \in CrashPoints :
          /\ subFile' = _save_subscribers_killed(r.subscribers, subFile, at)
          /\ ev' = Event(op, "killed", chat, source, "None", TRUE, at)
    /\ managers' = [managers EXCEPT ![p] =
                       [up |-> FALSE, subscribers |-> EmptyDict,
                        calls |-> @.calls + 1, unsaved |-> FALSE]]
    /\ UNCHANGED <<backend, subscribers, coll, sess, diffVars, storeVars, mainVars, notifyVars, langVars, bcastVars>>

ProcKilledInAdd(p, c, s) ==
    ProcKilled(p, "add_subscription", c, s,
               add_subscription(managers[p].subscribers, c, s))

ProcKilledInRemove(p, c, s) ==
    ProcKilled(p, "remove_subscription", c, s,
               remove_subscription(managers[p].subscribers, c, s))

\* the process ends; its records are gone with it
ProcExit(p) ==
    /\ managers[p].up
    /\ managers' = [managers EXCEPT ![p].up = FALSE, ![p].subscribers = EmptyDict]
    /\ ev' = Event("exit", "call", 0, "", "None", TRUE, "none")
    /\ UNCHANGED <<backend, subscribers, subFile, coll, sess, diffVars,
                   storeVars, mainVars, notifyVars, langVars, bcastVars>>

NextProcs ==
    \/ \E p \in Processes : ProcStart(p)
    \/ \E p \in Processes, c \in Chats, s \in Sources : ProcAddSubscription(p, c, s)
    \/ \E p \in Processes, c \in Chats, s \in Sources : ProcRemoveSubscription(p, c, s)
    \/ \E p \in Processes, c \in Chats, s \in Sources : ProcKilledInAdd(p, c, s)
    \/ \E p \in Processes, c \in Chats, s \in Sources : ProcKilledInRemove(p, c, s)
    \/ \E p \in Processes : ProcExit(p)

SpecProcs == InitProcs /\ [][NextProcs]_vars

(***************************************************************************)
(* The monitoring process dispatching while the bot process serves         *)
(* commands: the notifier reads the recipients from the SubscriberManager  *)
(* it built in TelegramNotifier.__init__ (notifier.py:29).                 *)
(***************************************************************************)
\* the diffs the monitoring process dispatches: nothing changed, one new film
DispatchCases == {Changes(<<>>, <<>>, <<>>), Changes(<<WithPoster("X")>>, <<>>, <<>>)}

\* send_update_notification of the monitoring process, every send succeeding
MonitorDispatch(source_id) ==
    /\ managers["monitor"].up
    /\ ~notif.called
    /\ \E d \in DispatchCases :
          LET net == [c \in Chats |-> NetOk]
          IN  \E r \in send_update_notification(managers["monitor"].subscribers,
                                                source_id, d.new, d.removed,
                                                d.updated, net) :
                  notif' = [called        |-> TRUE,
                            source_id     |-> source_id,
                            new_films     |-> d.new,
                            removed_films |-> d.removed,
                            updated_films |-> d.updated,
                            net           |-> net,
                            result        |-> r]
    /\ ev' = Event("send_update_notification", "call", 0, source_id, "None",
                   TRUE, "none")
    /\ UNCHANGED <<backend, subscribers, subFile, coll, sess, diffVars, storeVars, mainVars, procVars, langVars, bcastVars>>

NextDispatch ==
    \/ NextProcs
    \/ \E s \in Sources : MonitorDispatch(s)

SpecDispatch == InitProcs /\ [][NextDispatch]_vars

(***************************************************************************)
(* Claims about the subscription stores.                                   *)
(***************************************************************************)
\* the record set the deployment's store holds: chat id -> record
Store == IF backend = "file" THEN subscribers ELSE coll

Subscribed(store, c, s) == c \in DOMAIN store /\ s \in Range(store[c].sources)

\* C1: after any sequence of addSubscription, removeSubscription and
\* removeSubscriber calls no chat has a record with an empty source list: a chat
\* either has no record (getUserSources empty, isSubscribed false, not among the
\* stored records) or has a non-empty source list. It holds of the records in
\* memory, of the records a load of the file yields, and of the collection.
C1_NoEmptySourceRecord ==
    \A c \in Chats :
        /\ \/ /\ c \notin DOMAIN subscribers
              /\ get_user_sources(subscribers, c) = <<>>
              /\ ~is_subscribed(subscribers, c, None)
              /\ c \notin get_all_subscribers(subscribers)
           \/ /\ c \in DOMAIN subscribers
              /\ get_user_sources(subscribers, c) # <<>>
        /\ LET persisted == _load_subscribers(subFile)
           IN  c \in DOMAIN persisted => persisted[c].sources # <<>>
        /\ \/ /\ c \notin DOMAIN coll
              /\ Mongo_get_user_sources(coll, c) = <<>>
              /\ ~Mongo_is_subscribed(coll, c, None)
              /\ c \notin Mongo_get_all_subscribers(coll)
           \/ /\ c \in DOMAIN coll
              /\ Mongo_get_user_sources(coll, c) # <<>>

\* C1 witness: a chat's last source was removed and saved, its record is gone
\* while another chat still has one
C1_Witness ==
    /\ backend = "file"
    /\ ev.op = "remove_subscription" /\ ev.ret = "True" /\ ev.io = "ok"
    /\ ev.chat \notin DOMAIN subscribers
    /\ ev.chat \notin DOMAIN _load_subscribers(subFile)
    /\ subscribers # EmptyDict

AddStep(c, s, step) ==
    ev'.op = "add_subscription" /\ ev'.step = step /\ ev'.chat = c /\ ev'.source = s

C2_Step ==
    \A c \in Chats, s \in Sources :
        \* the first call, on a pair not subscribed: true, and the pair is stored
        /\ (AddStep(c, s, "call") /\ ~Subscribed(Store, c, s)) =>
               IF backend = "file"
               THEN ev'.ret = "True" /\ Subscribed(Store', c, s)
               ELSE ev'.ret = "pending"
        /\ (AddStep(c, s, "write") /\ ev'.clean) =>
               ev'.ret = "True" /\ Subscribed(Store', c, s)
        \* the call that follows it: false, and nothing is touched
        /\ ( /\ AddStep(c, s, "call")
             /\ ev.op = "add_subscription" /\ ev.chat = c /\ ev.source = s
             /\ ev.ret = "True" /\ ev.clean ) =>
               /\ ev'.ret = "False"
               /\ subscribers' = subscribers
               /\ subFile' = subFile
               /\ coll' = coll

\* C2: for a chat c not subscribed to source s, addSubscription(c, s) returns
\* true and the call made right after it returns false and leaves the store, in
\* memory and persisted, as the first call left it. (For the MongoDB store the
\* first call is one that ran with no other writer on c's document.)
C2_AddTwice == [][C2_Step]_vars

\* C2 witness: addSubscription has just returned false for a stored pair
C2_Witness ==
    /\ ev.op = "add_subscription" /\ ev.ret = "False"
    /\ Subscribed(Store, ev.chat, ev.source)
    /\ backend = "file" => _load_subscribers(subFile) = subscribers

RemoveStep(c, s, step) ==
    ev'.op = "remove_subscription" /\ ev'.step = step /\ ev'.chat = c
        /\ ev'.source = s

C3_Step ==
    \A c \in Chats, s \in Sources :
        /\ RemoveStep(c, s, "call") =>
               /\ (ev'.ret = "False") <=> ~Subscribed(Store, c, s)
               /\ ev'.ret = "False" =>
                      subscribers' = subscribers /\ subFile' = subFile /\ coll' = coll
               /\ ev'.ret \in {"False", IF backend = "file" THEN "True" ELSE "pending"}
        /\ RemoveStep(c, s, "write") => ev'.ret = "True"
        /\ ( /\ RemoveStep(c, s, "call") \/ RemoveStep(c, s, "write")
             /\ ev'.ret = "True" /\ ev'.clean ) =>
               /\ Subscribed(Store, c, s)
               /\ \A c2 \in Chats \ {c} :
                      /\ c2 \in DOMAIN Store' <=> c2 \in DOMAIN Store
                      /\ c2 \in DOMAIN Store => Store'[c2] = Store[c2]
               /\ c \notin DOMAIN Store' <=> Range(Store[c].sources) = {s}
               /\ c \in DOMAIN Store' =>
                      /\ Range(Store'[c].sources) = Range(Store[c].sources) \ {s}
                      /\ Len(Store'[c].sources) = Len(Store[c].sources) - 1
                      /\ Store'[c].language = Store[c].language
               /\ (backend = "file" /\ ev'.io = "ok") =>
                      _load_subscribers(subFile') = subscribers'

\* C3: removeSubscription(c, s) returns true exactly when c was subscribed to s
\* before the call; a call returning false changes nothing; a call returning
\* true removes only s from c's sources, leaves every other chat's record as it
\* was, and deletes c's record exactly when s was c's last source. (For the
\* MongoDB store the frame is that of a call that ran with no other writer on
\* c's document.)
C3_RemoveFrame == [][C3_Step]_vars

\* C3 witness: a removal returned true and left the chat its other source
C3_Witness ==
    /\ ev.op = "remove_subscription" /\ ev.ret = "True" /\ ev.clean
    /\ ev.chat \in DOMAIN Store
    /\ Store[ev.chat].sources # <<>>
    /\ \E c2 \in Chats \ {ev.chat} : c2 \in DOMAIN Store

(***************************************************************************)
(* Claims about the diff engine, under SpecDiff.                           *)
(***************************************************************************)
Count(seq, x) == Cardinality({i \in DOMAIN seq : seq[i] = x})

SameBag(a, b) ==
    /\ Len(a) = Len(b)
    /\ \A x \in Range(a) \cup Range(b) : Count(a, x) = Count(b, x)

TitlesOf(films) == {films[i].title : i \in DOMAIN films}

\* the record a listing ends up holding for a title: its last one
LastOf(films, t) ==
    LET idx == {i \in DOMAIN films : films[i].title = t}
    IN  films[CHOOSE i \in idx : \A j \in idx : j <= i]

WithTitle(films, t) == {i \in DOMAIN films : films[i].title = t}

ShowtimeSet(film) == Range(film.showtimes)

Compared == previous # None /\ diff # None

\* C4: with no previous snapshot the diff returns every film of the current
\* listing as new (as many times as the listing holds it) and returns nothing as
\* removed or updated, for every listing, the empty one included.
C4_FirstRunAllNew ==
    (previous = None /\ diff # None) =>
        /\ SameBag(diff[1].new, current)
        /\ diff[1].removed = <<>>
        /\ diff[1].updated = <<>>

\* C4 witness: a first run over a listing of two films
C4_Witness ==
    /\ previous = None /\ diff # None
    /\ Len(current) = 2 /\ current[1] # current[2]
    /\ Len(diff[1].new) = 2

\* C5: comparing a snapshot against a listing identical to its films yields
\* empty new, removed and updated outputs, also when several records share a
\* title.
C5_IdenticalListing ==
    (Compared /\ previous[1].films = current) =>
        /\ diff[1].new = <<>>
        /\ diff[1].removed = <<>>
        /\ diff[1].updated = <<>>

\* C5 witness: a listing with two different records of one title, compared
\* with itself
C5_Witness ==
    /\ Compared /\ previous[1].films = current
    /\ Len(current) = 2
    /\ current[1].title = current[2].title /\ current[1] # current[2]

\* C6 as stated: newFilms is exactly the current records whose title does not
\* occur in the previous snapshot, removedFilms exactly the previous records
\* whose title does not occur in the current listing.
C6_Original ==
    Compared =>
        /\ Range(diff[1].new) =
               {current[i] : i \in {k \in DOMAIN current :
                    current[k].title \notin TitlesOf(previous[1].films)}}
        /\ Range(diff[1].removed) =
               {previous[1].films[i] : i \in {k \in DOMAIN previous[1].films :
                    previous[1].films[k].title \notin TitlesOf(current)}}

\* C6 amended: newFilms holds one record for each title of the current listing
\* that does not occur in the previous snapshot, the last current record of that
\* title, and nothing else; removedFilms holds one record for each title of the
\* previous snapshot that does not occur in the current listing, the last
\* previous record of that title, and nothing else.
C6_NewAndRemoved ==
    Compared =>
        LET old  == previous[1].films
            newT == TitlesOf(current) \ TitlesOf(old)
            remT == TitlesOf(old) \ TitlesOf(current)
        IN  /\ Range(diff[1].new) = {LastOf(current, t) : t \in newT}
            /\ Len(diff[1].new) = Cardinality(newT)
            /\ Range(diff[1].removed) = {LastOf(old, t) : t \in remT}
            /\ Len(diff[1].removed) = Cardinality(remT)

\* C6 witness: one title came, one went, and the one that came is listed twice
C6_Witness ==
    /\ Compared
    /\ Len(diff[1].new) = 1 /\ Len(diff[1].removed) = 1
    /\ Len(current) = 2 /\ current[1].title = current[2].title
    /\ current[1] # current[2]
    /\ diff[1].new[1] = current[2]

\* C7: for a title in both the previous snapshot and the current listing, the
\* film is in updatedFilms, once and as its current version, exactly when its
\* description differs between the two versions or the set of its showtimes
\* (date, time, room, language) differs; the order and the repetition of
\* showtimes do not count.
C7_ChangePredicate ==
    Compared =>
        \A t \in TitlesOf(previous[1].films) \cap TitlesOf(current) :
            LET o == LastOf(previous[1].films, t)
                n == LastOf(current, t)
                hits == WithTitle(diff[1].updated, t)
            IN  /\ (hits # {}) <=>
                       \/ o.description # n.description
                       \/ ShowtimeSet(o) # ShowtimeSet(n)
                /\ hits # {} =>
                       /\ Cardinality(hits) = 1
                       /\ \A i \in hits : diff[1].updated[i] = n

\* C7 witness: only the language of the one showtime changed, and the film is
\* reported updated in its current version
C7_Witness ==
    /\ Compared
    /\ Len(current) = 1 /\ Len(previous[1].films) = 1
    /\ previous[1].films[1].description = current[1].description
    /\ previous[1].films[1].showtimes = <<StA>>
    /\ current[1].showtimes = <<StLang>>
    /\ diff[1].updated = <<current[1]>>

\* C8: a film whose title, description and showtime set are the same in the
\* previous snapshot and the current listing is not in updatedFilms, whatever
\* its genres, fskRating, duration, posterUrl and filmId have become.
C8_DisplayFieldsIgnored ==
    Compared =>
        \A t \in TitlesOf(previous[1].films) \cap TitlesOf(current) :
            LET o == LastOf(previous[1].films, t)
                n == LastOf(current, t)
            IN  (o.description = n.description /\ ShowtimeSet(o) = ShowtimeSet(n))
                    => WithTitle(diff[1].updated, t) = {}

\* C8 witness: genres, rating, duration, poster and id all changed and the
\* showtimes were reordered, and the film is not reported
C8_Witness ==
    /\ Compared
    /\ Len(current) = 1 /\ Len(previous[1].films) = 1
    /\ previous[1].films[1].title = current[1].title
    /\ previous[1].films[1].genres # current[1].genres
    /\ previous[1].films[1].fsk_rating # current[1].fsk_rating
    /\ previous[1].films[1].duration # current[1].duration
    /\ previous[1].films[1].poster_url # current[1].poster_url
    /\ previous[1].films[1].film_id # current[1].film_id
    /\ previous[1].films[1].showtimes # current[1].showtimes
    /\ Len(current[1].showtimes) = 2
    /\ diff[1].updated = <<>>

(***************************************************************************)
(* Claims about the snapshot store, under SpecStore.                       *)
(***************************************************************************)
FilmFieldsEqual(a, b) ==
    /\ a.title = b.title
    /\ a.genres = b.genres
    /\ a.fsk_rating = b.fsk_rating
    /\ a.duration = b.duration
    /\ a.description = b.description
    /\ a.poster_url = b.poster_url
    /\ a.film_id = b.film_id
    /\ ShowtimeSet(a) = ShowtimeSet(b)

C9_Step ==
    (sev.op = "save" /\ sev.ret = "ok" /\ sev'.op = "load"
         /\ sev'.source = sev.source) =>
        /\ sev'.snapshot # None
        /\ Len(sev'.snapshot[1].films) = Len(sev.films)
        /\ \A i \in DOMAIN sev.films :
               FilmFieldsEqual(sev'.snapshot[1].films[i], sev.films[i])

\* C9: a load for a source that follows a successful save of a listing for that
\* source returns a snapshot whose films equal the saved listing, film by film
\* and field by field, with equal showtime sets.
C9_RoundTrip == [][C9_Step]_vars

\* C9 witness: a loaded film with absent description, rating, duration, poster
\* and id, and with one showtime that has a language and one that has none
C9_Witness ==
    /\ sev.op = "load" /\ sev.snapshot # None
    /\ Len(sev.snapshot[1].films) = 1
    /\ sev.snapshot[1].films[1].description = None
    /\ sev.snapshot[1].films[1].duration = None
    /\ sev.snapshot[1].films[1].film_id = None
    /\ sev.snapshot[1].films[1].showtimes = <<StLang, StA>>

C10_Step ==
    \A a \in Sources :
        (sev'.op = "save" /\ sev'.source = a /\ sev'.ret = "ok") =>
            \A b \in Sources \ {a} :
                load_snapshot(StorageFor(b), fs') = load_snapshot(StorageFor(b), fs)

\* C10: snapshots are kept per source: a save for source a leaves what load
\* returns for every other source b as it was.
C10_PerSource == [][C10_Step]_vars

\* C11: load never raises: whatever the snapshot file holds, a load returns
\* (a snapshot, or the absent value for missing, corrupt and malformed
\* content).
C11_LoadNeverRaises == sev.op = "load" => sev.ret = "none"

C12_Step ==
    sev'.op = "save" =>
        LET before == load_snapshot(StorageFor(sev'.source), fs)
            after  == load_snapshot(StorageFor(sev'.source), fs')
        IN  IF sev'.ret = "ok"
            THEN /\ after.raises = "none" /\ after.value # None
                 /\ after.value[1].films = sev'.films
            ELSE before.raises = "none" => after = before

\* C12: a save replaces the snapshot atomically: after a save that failed or
\* was cut short a load returns what it returned before the save, and after a
\* save that succeeded it returns the saved listing.
C12_AtomicSave == [][C12_Step]_vars

(***************************************************************************)
(* Claims about the monitoring invocation, under SpecMain.                 *)
(***************************************************************************)
Exited == run.pc = "exited"

ScrapeSucceeds(s) == run.site[s].raises = "none"

\* load for source s returns the listing scraped from s in this invocation
Persisted(s) ==
    LET l == load_snapshot(StorageFor(s), fs)
    IN  /\ l.raises = "none" /\ l.value # None
        /\ l.value[1].films = run.site[s].films

\* C13: after an invocation that went through its sources, every source
\* whose scrape succeeded and whose storage raised no I/O error has reached
\* persisting: it is Done and load returns the listing scraped from it.
C13_ReachesPersisting ==
    (Exited /\ run.exit_code = 0) =>
        \A s \in Sources :
            (ScrapeSucceeds(s) /\ run.raised[s] # "OSError") =>
                run.status[s] = "Done" /\ Persisted(s)

IsPrefix(a, b) == Len(a) <= Len(b) /\ a = SubSeq(b, 1, Len(a))

\* the orchestrator's loop: the sources are attempted in registration order,
\* each at most once, and a finished source is Done or Failed
InOrder ==
    /\ IsPrefix(run.attempted, RegisteredSources)
    /\ \A s \in Range(run.attempted) : run.status[s] \in {"Done", "Failed"}

AllAttempted ==
    /\ run.attempted = RegisteredSources
    /\ \A s \in Sources : run.status[s] \in {"Done", "Failed"}

NotifiedChats(s) == {c \in Chats : <<s, c>> \in run.sent}

C15_Step ==
    \A s \in Sources :
        (run'.attempted = Append(run.attempted, s) /\ ~ScrapeSucceeds(s)) =>
            /\ fs' = fs
            /\ \A b \in Sources :
                   load_snapshot(StorageFor(b), fs') = load_snapshot(StorageFor(b), fs)
            /\ run'.sent = run.sent
            /\ run'.status[s] = "Failed"

\* C15: the step that processes a source whose scrape fails saves no
\* snapshot and sends no notification for it: the snapshot files, and what
\* load returns, are as before, and at the end of the invocation nobody was
\* notified about that source.
C15_ScrapeFailure ==
    /\ [][C15_Step]_vars
    /\ [](\A s \in Sources : (Exited /\ ~ScrapeSucceeds(s)) => NotifiedChats(s) = {})

\* C15 witness: a source with a persisted baseline whose scrape failed
C15_Witness ==
    \E s \in Sources :
        /\ s \in Range(run.attempted)
        /\ run.raised[s] = "HTTPError"
        /\ load_snapshot(StorageFor(s), fs).value # None

\* the notifier could not be constructed, or the notification call raised
NotifierFailed(s) ==
    \/ run.notify /\ ~run.notifier
    \/ run.send_raised[s] # "none"

\* C16: a failure of the notifier keeps no snapshot from being saved: at the
\* end of an invocation whose notifier failed, load returns, for every source
\* whose scrape succeeds, the listing scraped from it.
C16_NotifierFailureStillSaves ==
    Exited =>
        \A s \in Sources :
            (NotifierFailed(s) /\ ScrapeSucceeds(s)) => Persisted(s)

C17_Step ==
    (run.pc = "idle" /\ run'.pc # "idle" /\ run'.notify /\ ~run'.token) =>
        /\ run'.pc = "exited"
        /\ run'.exit_code # 0
        /\ run'.attempted = <<>>
        /\ fs' = fs
        /\ subFile' = subFile
        /\ subscribers' = subscribers

\* C17: an invocation with notification enabled and no bot token ends at its
\* startup with a non-zero exit code: no source is attempted, and the
\* snapshot files and the subscriber file are as they were.
C17_MissingTokenFatal ==
    /\ [][C17_Step]_vars
    /\ []((run.notify /\ ~run.token /\ run.pc # "idle") =>
             (Exited /\ run.exit_code # 0 /\ run.attempted = <<>>))

\* C17 witness: such an invocation ended, with a configured chat that is in
\* no subscriber record and with a snapshot and subscribers on disk
C17_Witness ==
    /\ Exited /\ run.exit_code = 1
    /\ run.notify /\ ~run.token
    /\ fs # EmptyDict
    /\ subFile # FileAbsent
    /\ run.attempted = <<>>

(***************************************************************************)
(* Claims about concurrent calls on the MongoDB-backed store, under Spec.  *)
(***************************************************************************)
\* the step taken last (ev) or now (ev') was the write of a call op(c, s) that
\* returned true
Wrote(e, op, c, s) ==
    /\ backend = "mongo"
    /\ e.op = op /\ e.step = "write" /\ e.chat = c /\ e.source = s
    /\ e.ret = "True"

\* Two calls overlap when each read before the other wrote.  When the write
\* of one call follows the write of another directly, the two calls overlap:
\* the second writer was between its read and its write while the first wrote.
C18_Step ==
    \A c \in Chats, s1 \in Sources : \A s2 \in Sources \ {s1} :
        (Wrote(ev, "add_subscription", c, s2) /\ Wrote(ev', "add_subscription", c, s1)) =>
            Subscribed(coll', c, s1) /\ Subscribed(coll', c, s2)

C19_Step ==
    \A c \in Chats, s1 \in Sources : \A s2 \in Sources \ {s1} :
        \/ ( /\ Wrote(ev, "remove_subscription", c, s1) /\ ev.io = "delete_one"
             /\ Wrote(ev', "add_subscription", c, s2) )
        \/ ( /\ Wrote(ev, "add_subscription", c, s2)
             /\ Wrote(ev', "remove_subscription", c, s1) /\ ev'.io = "delete_one" )
        => Subscribed(coll', c, s2)

\* C19: when add_subscription(c, s2) overlaps remove_subscription(c, s1),
\* s1 being the only source of c when the removal read the record, and the
\* add returns true, then once both have written c has a record that holds s2.
C19_AddSurvivesDelete == [][C19_Step]_vars

(***************************************************************************)
(* Claims about processes sharing the subscriber file, under SpecProcs.    *)
(***************************************************************************)
\* the record of chat c as a SubscriberManager built now would load it
FileRecord(file, c) ==
    LET subs == _load_subscribers(file)
    IN  IF c \in DOMAIN subs THEN Some(subs[c]) ELSE None

\* process p made a mutating call for chat c whose save succeeded, and every
\* earlier save of p had succeeded too
SavedCall(p, c) ==
    /\ managers'[p].calls = managers[p].calls + 1
    /\ ev'.chat = c /\ ev'.ret = "True" /\ ev'.io = "ok"
    /\ ~managers[p].unsaved

C20_Step ==
    \A p \in Processes, c \in Chats :
        SavedCall(p, c) =>
            /\ FileRecord(subFile', c) =
                   (IF c \in DOMAIN managers'[p].subscribers
                    THEN Some(managers'[p].subscribers[c]) ELSE None)
            /\ \A other \in Chats \ {c} :
                   FileRecord(subFile', other) = FileRecord(subFile, other)

\* C20: a mutating call of one process for one chat puts its effect into the
\* file and leaves the persisted record of every other chat as it was, also
\* when another process has changed the file since this process loaded it.
C20_OtherChatsKept == [][C20_Step]_vars

(***************************************************************************)
(* Claims about the subscriber file and failing writes, under Spec.        *)
(***************************************************************************)
\* the step is a call of add_subscription or remove_subscription on the
\* file-backed store that returned true
FileMutation ==
    /\ backend = "file"
    /\ ev'.op \in {"add_subscription", "remove_subscription"}
    /\ ev'.ret = "True"

C21_Step ==
    FileMutation =>
        (Subscribed(_load_subscribers(subFile'), ev'.chat, ev'.source)
             <=> ev'.op = "add_subscription")

\* C21: after add_subscription or remove_subscription returned true, a
\* SubscriberManager constructed from the file reports the subscription the
\* call made (subscribed after an add, not subscribed after a remove), also
\* when the write of the file met an I/O error.
C21_TrueMeansPersisted == [][C21_Step]_vars

(***************************************************************************)
(* Claims about a process stopped inside a save, under SpecProcs.          *)
(***************************************************************************)
\* process p is stopped in this step inside a mutating call, and until then
\* its records were the ones the file holds
KilledInCall(p) ==
    /\ ev'.step = "killed"
    /\ managers[p].up /\ ~managers'[p].up
    /\ managers[p].subscribers = _load_subscribers(subFile)

\* the records of p had the call this step is about run to its end
RecordsAfter(p) ==
    IF ev'.op = "add_subscription"
    THEN add_subscription(managers[p].subscribers, ev'.chat, ev'.source).subscribers
    ELSE remove_subscription(managers[p].subscribers, ev'.chat, ev'.source).subscribers

C22_Step ==
    \A p \in Processes :
        KilledInCall(p) =>
            /\ _load_subscribers(subFile') \in
                   {_load_subscribers(subFile), RecordsAfter(p)}
            /\ \A other \in Chats \ {ev'.chat} :
                   FileRecord(subFile', other) = FileRecord(subFile, other)

\* C22: when a process is stopped at any point of a mutating subscription
\* call, the record set loaded from the file afterwards is the record set
\* before the call or the record set after it, and the records of the chats
\* the call does not name are kept.
C22_CrashSafe == [][C22_Step]_vars

(***************************************************************************)
(* Claims about the notifier, under SpecNotify.                            *)
(***************************************************************************)
\* send_update_notification was called with a diff that is not empty
DispatchedChanges ==
    /\ notif.called
    /\ notif.new_films # <<>> \/ notif.removed_films # <<>> \/ notif.updated_films # <<>>

\* the subscribers of the source of the call
Recipients == get_subscribers_for_source(subscribers, notif.source_id)

\* C23: when the source has no subscribers, the dispatch of a diff that is not
\* empty makes no call to the Bot API for any chat (no header, film, photo or
\* removed-films message) and raises nothing.
C23_NoSubscribersNoMessages ==
    (DispatchedChanges /\ Recipients = {}) =>
        /\ \A c \in Chats : notif.result.log[c] = <<>>
        /\ notif.result.attempted = <<>>
        /\ notif.result.raises = "none"

\* a source without subscribers while a chat is subscribed to the other source
C23_Witness ==
    /\ DispatchedChanges /\ Recipients = {}
    /\ DOMAIN subscribers # {}
    /\ notif.removed_films # <<>> /\ notif.new_films # <<>>
    /\ notif.result.raises = "none"

\* the number of Bot API messages a recipient gets when every call succeeds
FullLength ==
    1 + Len(Take(notif.new_films, NewFilmLimit))
      + Len(Take(notif.updated_films, UpdatedFilmLimit))
      + (IF notif.removed_films # <<>> THEN 1 ELSE 0)

\* C24: whatever failure the sends to one recipient meet, delivery is attempted
\* for every subscriber of the source, the recipients that did not get all
\* their messages are counted as failed, and send_update_notification does
\* not raise.
C24_RecipientIsolation ==
    DispatchedChanges =>
        /\ Range(notif.result.attempted) = Recipients
        /\ notif.result.error_count =
               Cardinality({c \in Recipients :
                                Len(notif.result.log[c]) # FullLength})
        /\ notif.result.success_count + notif.result.error_count =
               Cardinality(Recipients)
        /\ notif.result.raises = "none"

\* the recipients the loop reached for which the Bot API accepted every call
ServedRecipients ==
    {c \in Recipients : c \in Range(notif.result.attempted) /\ notif.net[c] = NetOk}

AtMostTen(n) == IF n < 10 THEN n ELSE 10

\* C25: a recipient whose sends all succeed gets, in this order, one summary
\* header, one message for each of the first 10 new films at most, one message
\* for each of the first 10 updated films at most, and then one removed-films
\* message that lists every removed film when a film was removed and no such
\* message otherwise.
C25_MessageOrder ==
    DispatchedChanges =>
        \A c \in ServedRecipients :
            LET log == notif.result.log[c]
                n   == AtMostTen(Len(notif.new_films))
                u   == AtMostTen(Len(notif.updated_films))
                r   == IF notif.removed_films # <<>> THEN 1 ELSE 0
            IN  /\ Len(log) = 1 + n + u + r
                /\ log[1].kind = "header"
                /\ \A i \in 1..n :
                       /\ log[1 + i].kind = "film" /\ log[1 + i].prefix = "new"
                       /\ log[1 + i].title = notif.new_films[i].title
                /\ \A i \in 1..u :
                       /\ log[1 + n + i].kind = "film"
                       /\ log[1 + n + i].prefix = "updated"
                       /\ log[1 + n + i].title = notif.updated_films[i].title
                /\ r = 1 =>
                       /\ log[Len(log)].kind = "removed"
                       /\ log[Len(log)].titles =
                              [i \in DOMAIN notif.removed_films |->
                                   notif.removed_films[i].title]

\* more than 10 new and more than 10 updated films, removed films, and a
\* served recipient next to one whose delivery failed
C25_Witness ==
    /\ DispatchedChanges
    /\ Len(notif.new_films) > 10 /\ Len(notif.updated_films) > 10
    /\ notif.removed_films # <<>>
    /\ ServedRecipients # {}
    /\ notif.result.error_count > 0

(***************************************************************************)
(* Claims about loading the subscriber file, under SpecProcs.              *)
(***************************************************************************)
\* process p constructs its SubscriberManager in this step
Loads(p) == ev'.op = "__init__" /\ ~managers[p].up /\ managers'[p].up

C27_Step ==
    \A p \in Processes :
        Loads(p) =>
            LET loaded == managers'[p].subscribers
            IN  /\ (subFile.kind = "json" /\ subFile.type = "list") =>
                       /\ DOMAIN loaded = Range(subFile.items)
                       /\ \A c \in DOMAIN loaded :
                              loaded[c].sources = <<"meisengeige">>
                /\ (subFile.kind = "json" /\ subFile.type = "dict") =>
                       \A c \in Chats :
                           /\ c \in DOMAIN loaded <=>
                                  IntToStr(c) \in DOMAIN subFile.entries
                           /\ c \in DOMAIN loaded =>
                                  loaded[c] = subFile.entries[IntToStr(c)]
                /\ subFile.kind = "json" =>
                       _migrate_old_format(DumpSubscribers(loaded)) = loaded

\* C27: loading a file in the legacy flat-list format yields one record for
\* every listed chat id and no other, each with the sources ["meisengeige"];
\* loading a file in the new format yields its records unchanged; and the
\* migration applied to its own result, written as a file, yields the same
\* records.
C27_Migration == [][C27_Step]_vars

\* a process has loaded a flat list that names every chat
C27_Witness ==
    /\ ev.op = "__init__"
    /\ subFile.kind = "json" /\ subFile.type = "list"
    /\ Range(subFile.items) = Chats
    /\ \E p \in Processes :
           managers[p].up /\ DOMAIN managers[p].subscribers = Chats

(***************************************************************************)
(* Claims about the language preference, under SpecLang.                   *)
(***************************************************************************)
C28_Step ==
    /\ \A c \in Chats, l \in Languages :
           (ev'.op = "set_language" /\ ev'.chat = c /\ ev'.source = l) =>
               /\ get_language(languages', c) = l
               /\ has_language_set(languages', c)
               /\ \A other \in Chats \ {c} :
                      /\ get_language(languages', other) = get_language(languages, other)
                      /\ has_language_set(languages', other) <=>
                             has_language_set(languages, other)
               /\ \A any \in Chats :
                      Mongo_get_user_sources(coll', any) = Mongo_get_user_sources(coll, any)
    /\ ev'.op \in {"add_subscription", "remove_subscription", "remove_subscriber"} =>
           \A c \in Chats :
               /\ get_language(languages', c) = get_language(languages, c)
               /\ has_language_set(languages', c) <=> has_language_set(languages, c)

\* C28: set_language(c, l) makes get_language(c) return l and has_language_set(c)
\* true, for a chat with or without a subscriber record, and changes no chat's
\* sources; every step of add_subscription, remove_subscription and
\* remove_subscriber, also one that deletes the record of c, leaves what
\* get_language and has_language_set return for every chat as it was.
C28_LanguageIndependent == [][C28_Step]_vars

\* the subscriber record of a chat that had set a language was deleted
C28_Witness ==
    \E c \in Chats :
        /\ ev.op = "remove_subscription" /\ ev.io = "delete_one" /\ ev.chat = c
        /\ c \notin DOMAIN coll
        /\ has_language_set(languages, c) /\ get_language(languages, c) = "de"

(***************************************************************************)
(* Claims about the monitoring script and the subscriber file, under       *)
(* SpecMain.                                                               *)
(***************************************************************************)
C29_Step ==
    \A c \in Chats :
        /\ FileRecord(subFile', c) = FileRecord(subFile, c)
        /\ \A s \in Sources :
               Subscribed(_load_subscribers(subFile'), c, s) =>
                   Subscribed(_load_subscribers(subFile), c, s)

\* C29: no step of a monitoring invocation, the construction of the notifier
\* included, adds, removes or rewrites the persisted record of a chat, so a
\* chat that is not subscribed to a source before the run is not subscribed
\* to it after the run.
C29_MonitoringReadsOnly == [][C29_Step]_vars

(***************************************************************************)
(* Claims about the subscriber counts, under Spec.                         *)
(***************************************************************************)
\* get_subscriber_count and get_subscribers_for_source of the deployment's store
StoreCount(source_id) ==
    IF backend = "file" THEN get_subscriber_count(subscribers, source_id)
    ELSE Mongo_get_subscriber_count(coll, source_id)

StoreSubscribersFor(s) ==
    IF backend = "file" THEN get_subscribers_for_source(subscribers, s)
    ELSE Mongo_get_subscribers_for_source(coll, s)

\* C30: after any sequence of subscription calls get_subscriber_count() is the
\* number of chats that are subscribed to at least one source, and
\* get_subscriber_count(s) is the size of get_subscribers_for_source(s); so the
\* total is back at its earlier value once a chat has left all its sources.
C30_Counts ==
    /\ StoreCount(None) =
           Cardinality({c \in Chats : \E s \in Sources : Subscribed(Store, c, s)})
    /\ \A s \in Sources :
           /\ StoreCount(Some(s)) = Cardinality(StoreSubscribersFor(s))
           /\ StoreSubscribersFor(s) = {c \in Chats : Subscribed(Store, c, s)}

\* a chat has just left its last source while another chat is still counted
C30_Witness ==
    /\ ev.op = "remove_subscription" /\ ev.ret = "True"
    /\ ev.chat \notin DOMAIN Store
    /\ StoreCount(None) >= 1
    /\ \E s \in Sources : StoreCount(Some(s)) = 0

(***************************************************************************)
(* Claims about the read operations, under Spec.                           *)
(***************************************************************************)
StoreIsSubscribed(c, source_id) ==
    IF backend = "file" THEN is_subscribed(subscribers, c, source_id)
    ELSE Mongo_is_subscribed(coll, c, source_id)

StoreUserSources(c) ==
    IF backend = "file" THEN get_user_sources(subscribers, c)
    ELSE Mongo_get_user_sources(coll, c)

StoreAllSubscribers ==
    IF backend = "file" THEN get_all_subscribers(subscribers)
    ELSE Mongo_get_all_subscribers(coll)

\* C31: in every reachable state of a store and for every chat c and source s,
\* is_subscribed(c, s) holds exactly when s is in get_user_sources(c), exactly
\* when c is in get_subscribers_for_source(s); and is_subscribed(c) holds
\* exactly when get_user_sources(c) is not empty, exactly when c is in
\* get_all_subscribers().
C31_ReadsAgree ==
    \A c \in Chats :
        /\ \A s \in Sources :
               /\ StoreIsSubscribed(c, Some(s)) <=> s \in Range(StoreUserSources(c))
               /\ StoreIsSubscribed(c, Some(s)) <=> c \in StoreSubscribersFor(s)
        /\ StoreIsSubscribed(c, None) <=> StoreUserSources(c) # <<>>
        /\ StoreIsSubscribed(c, None) <=> c \in StoreAllSubscribers

\* after a removal: a chat that holds one source and not the other, next to
\* a chat without a record
C31_Witness ==
    /\ ev.op = "remove_subscription" /\ ev.ret = "True"
    /\ \E c \in Chats, s1 \in Sources :
           /\ StoreIsSubscribed(c, Some(s1))
           /\ \E s2 \in Sources : ~StoreIsSubscribed(c, Some(s2))
    /\ \E other \in Chats : other \notin StoreAllSubscribers

(***************************************************************************)
(* Claims about the legacy operations, under Spec.                         *)
(***************************************************************************)
\* the other chats' records are the same before and after the step
OthersKept(c) ==
    \A c2 \in Chats \ {c} :
        /\ c2 \in DOMAIN Store' <=> c2 \in DOMAIN Store
        /\ c2 \in DOMAIN Store => Store'[c2] = Store[c2]

C32_Step ==
    \A c \in Chats :
        /\ (ev'.op = "remove_subscriber" /\ ev'.chat = c) =>
               /\ ev'.ret = "True" <=> c \in DOMAIN Store
               /\ \A s \in Sources : ~Subscribed(Store', c, s)
               /\ c \notin DOMAIN Store'
               /\ OthersKept(c)
        /\ (ev'.op = "add_subscriber" /\ ev'.chat = c) =>
               LET r == add_subscription(subscribers, c, "meisengeige")
               IN  /\ ev'.ret = BoolStr(r.ret)
                   /\ ev'.ret = "True" <=> ~Subscribed(Store, c, "meisengeige")
                   /\ subscribers' = r.subscribers
                   /\ Subscribed(Store', c, "meisengeige")
                   /\ \A s \in Sources \ {"meisengeige"} :
                          Subscribed(Store', c, s) <=> Subscribed(Store, c, s)
                   /\ OthersKept(c)

\* C32: remove_subscriber(c) returns true exactly when c had a record, leaves
\* c without a record whatever sources it held, and changes no other chat's
\* record; add_subscriber(c) returns and stores what
\* add_subscription(c, "meisengeige") does.
C32_LegacyOperations == [][C32_Step]_vars

\* a chat's whole record was removed while another chat keeps its record
C32_Witness ==
    /\ ev.op = "remove_subscriber" /\ ev.ret = "True"
    /\ ev.chat \notin DOMAIN Store
    /\ \E c2 \in Chats \ {ev.chat} : Subscribed(Store, c2, "kinderkino")

\* the chats ADMIN_CHAT_IDS names
ConfiguredAdmins == {bcast.env[i].id : i \in {k \in DOMAIN bcast.env : bcast.env[k].text = "id"}}

\* every message the update processed last put on the wire: those of the
\* handler and the reply of process_update
BroadcastMessages(b) ==
    b.result.sent \cup (IF b.replied THEN {Sent(b.chat_id, b.result.ret)} ELSE {})

\* C33: a /broadcast update from a chat that is not in the admin list makes
\* the handler send no message and leaves the subscriber and language
\* collections as they were, the only message of the update being the reply
\* to the sender; and whenever a /broadcast update sends a message to a chat
\* other than its sender, the sender is in the admin list.
C33_Step ==
    ev'.op = "broadcast" =>
        /\ bcast'.chat_id \notin ConfiguredAdmins =>
               /\ bcast'.result.sent = {}
               /\ \A m \in BroadcastMessages(bcast') : m.to = bcast'.chat_id
               /\ coll' = coll /\ languages' = languages /\ subFile' = subFile
        /\ (\E m \in BroadcastMessages(bcast') : m.to # bcast'.chat_id)
               => bcast'.chat_id \in ConfiguredAdmins

C33_AdminOnlyBroadcast == [][C33_Step]_vars

\* a chat outside the admin list asked to broadcast a text while another chat
\* was subscribed, and was refused
C33_Witness ==
    /\ bcast.called
    /\ bcast.chat_id \notin ConfiguredAdmins
    /\ Len(bcast.words) = 2
    /\ Mongo_get_all_subscribers(coll) \ {bcast.chat_id} # {}
    /\ bcast.result.ret = "broadcast_no_permission"
    /\ bcast.replied

\* no two records of the list share a title
OnePerTitle(films) ==
    \A i, j \in DOMAIN films : films[i].title = films[j].title => i = j

\* every record of the list is the last record its title has in the listing
LastOccurrences(films, listing) ==
    \A i \in DOMAIN films :
        /\ films[i].title \in TitlesOf(listing)
        /\ films[i] = LastOf(listing, films[i].title)

\* a title of both listings is reported updated exactly when the change
\* predicate holds of the last record it has in each listing
ClassifiedByLast(old, new, d) ==
    \A t \in TitlesOf(old) \cap TitlesOf(new) :
        t \in TitlesOf(d.updated) <=> _film_changed(LastOf(old, t), LastOf(new, t))

\* C34 as stated: for every input, a first run included, each of new, removed
\* and updated holds at most one record per title, the last record of that
\* title in the listing it is taken from.
C34_Original ==
    diff # None =>
        /\ OnePerTitle(diff[1].new)
        /\ OnePerTitle(diff[1].removed)
        /\ OnePerTitle(diff[1].updated)
        /\ LastOccurrences(diff[1].new, current)
        /\ LastOccurrences(diff[1].updated, current)

\* C34 amended: when a previous snapshot exists, each of new, removed and
\* updated holds at most one record per title, new and updated hold the last
\* current record of the title, removed the last previous one, and a title of
\* both listings is classified by comparing its last records; when no previous
\* snapshot exists, new is the current listing as it is, every record of a
\* repeated title included.
C34_LastOccurrenceWins ==
    /\ Compared =>
           /\ OnePerTitle(diff[1].new)
           /\ OnePerTitle(diff[1].removed)
           /\ OnePerTitle(diff[1].updated)
           /\ LastOccurrences(diff[1].new, current)
           /\ LastOccurrences(diff[1].updated, current)
           /\ LastOccurrences(diff[1].removed, previous[1].films)
           /\ ClassifiedByLast(previous[1].films, current, diff[1])
    /\ (previous = None /\ diff # None) => diff[1].new = current

\* C34 witness: the current listing holds a title twice in different versions,
\* the previous snapshot holds the second of them, and nothing is reported
C34_Witness ==
    /\ Compared
    /\ Len(current) = 2 /\ current[1].title = current[2].title
    /\ current[1] # current[2]
    /\ previous[1].films = <<current[2]>>
    /\ diff[1].updated = <<>> /\ diff[1].new = <<>>

\* C35: for every previous snapshot, none included, the titles of new, removed and
\* updated are pairwise disjoint, new and updated titles occur in the current
\* listing, removed titles in the previous snapshot, and a title of either
\* listing that none of the three outputs holds occurs in both listings with
\* the change predicate false of the records the listings hold for it.
C35_Partition ==
    diff # None =>
        LET old == IF previous = None THEN <<>> ELSE previous[1].films
            n   == TitlesOf(diff[1].new)
            r   == TitlesOf(diff[1].removed)
            u   == TitlesOf(diff[1].updated)
        IN  /\ n \cap r = {} /\ n \cap u = {} /\ r \cap u = {}
            /\ n \cup u \subseteq TitlesOf(current)
            /\ r \subseteq TitlesOf(old)
            /\ \A t \in (TitlesOf(old) \cup TitlesOf(current)) \ (n \cup r \cup u) :
                   /\ t \in TitlesOf(old) /\ t \in TitlesOf(current)
                   /\ ~_film_changed(LastOf(old, t), LastOf(current, t))

\* C35 witness: of the two titles of the current listing one is new and the
\* other, held by the previous snapshot in the same version, is in no output
C35_Witness ==
    /\ Compared
    /\ Len(current) = 2 /\ Len(diff[1].new) = 1
    /\ diff[1].removed = <<>> /\ diff[1].updated = <<>>
    /\ TitlesOf(previous[1].films) \cap TitlesOf(current) # {}

\* C36: when remove_subscription(c, s) has returned true and the dispatch for
\* s begins after it, the dispatch sends no message to c, whichever process
\* made the call.
C36_Step ==
    (/\ ~notif.called /\ notif'.called
     /\ ev.op = "remove_subscription" /\ ev.step = "call" /\ ev.ret = "True"
     /\ ev.source = notif'.source_id)
        => /\ ev.chat \notin notif'.result.delivered
           /\ notif'.result.log[ev.chat] = <<>>

C36_UnsubscribedNotNotified == [][C36_Step]_vars

\* C37: of two overlapping add_subscription calls for the same chat and the
\* same source (the write of one follows the write of the other directly) at
\* most the first returns true, and the record of the chat holds the source
\* once.
C37_Step ==
    \A c \in Chats, s \in Sources :
        (/\ Wrote(ev, "add_subscription", c, s)
         /\ ev'.op = "add_subscription" /\ ev'.step = "write"
         /\ ev'.chat = c /\ ev'.source = s)
            => /\ ev'.ret # "True"
               /\ c \in DOMAIN coll' => Count(coll'[c].sources, s) <= 1

C37_DoubleTap == [][C37_Step]_vars

\* send_update_notification went through its loop and returned
Finished == DispatchedChanges /\ Recipients # {} /\ notif.result.raises = "none"

\* C38: when send_update_notification returns for a source with subscribers
\* and a diff that is not empty, every subscriber of the source was attempted
\* exactly once, nobody else was, and success_count + error_count is the
\* number of those subscribers.
C38_AllAttemptedOnce ==
    Finished =>
        /\ Range(notif.result.attempted) = Recipients
        /\ \A c \in Recipients : Count(notif.result.attempted, c) = 1
        /\ notif.result.success_count + notif.result.error_count =
               Cardinality(Recipients)

\* C38 witness: two subscribers, the sends to one of them fail and the other
\* is served
C38_Witness ==
    /\ Finished
    /\ Cardinality(Recipients) = 2
    /\ notif.result.success_count = 1 /\ notif.result.error_count = 1

\* C39: a dispatch whose new, removed and updated lists are all empty makes
\* no call to the Bot API for any chat: no subscriber of the source is
\* attempted and nobody gets a message.
C39_EmptyDiffSilent ==
    (/\ notif.called
     /\ notif.new_films = <<>> /\ notif.removed_films = <<>>
     /\ notif.updated_films = <<>>)
        => /\ \A c \in Chats : notif.result.log[c] = <<>>
           /\ notif.result.attempted = <<>>
           /\ notif.result.delivered = {}

\* C39 witness: an empty diff dispatched for a source every chat subscribes to
C39_Witness ==
    /\ notif.called /\ ~DispatchedChanges
    /\ Recipients = Chats
    /\ notif.result = NoSend

====
